---- MODULE Spec2Model ----
(***************************************************************************)
(* Commit classification and aggregation of linear-release:                *)
(*   extractors.ts  identifier / pull-request extraction, revert parsing   *)
(*   scan.ts        scanCommits, the last-write-wins fold over the commits *)
(* Text is a sequence of one-character strings; positions are 1-based and  *)
(* a position p names the boundary in front of text[p] (Len+1 is the end). *)
(***************************************************************************)
EXTENDS Integers, Sequences, FiniteSets, TLC

\* ------------------------------------------------------------------ text

Digits == <<"0","1","2","3","4","5","6","7","8","9">>

LowerLetters ==
  <<"a","b","c","d","e","f","g","h","i","j","k","l","m",
    "n","o","p","q","r","s","t","u","v","w","x","y","z">>

UpperLetters ==
  <<"A","B","C","D","E","F","G","H","I","J","K","L","M",
    "N","O","P","Q","R","S","T","U","V","W","X","Y","Z">>

\* null / undefined of an optional field (no text holds this element)
Null == <<"null">>

Min(S) == CHOOSE x \in S : \A y \in S : x <= y

Max(S) == CHOOSE x \in S : \A y \in S : y <= x

\* \d
IsDigit(c) == \E i \in 1..10 : Digits[i] = c

IsLower(c) == \E i \in 1..26 : LowerLetters[i] = c

IsUpper(c) == \E i \in 1..26 : UpperLetters[i] = c

\* \w
IsWordChar(c) == IsDigit(c) \/ IsLower(c) \/ IsUpper(c) \/ c = "_"

\* \s (the characters of it a commit text holds)
IsSpace(c) == c \in {" ", "\t", "\r", "\n"}

\* the line terminators `.` does not match without the s flag
IsLineTerminator(c) == c \in {"\n", "\r"}

ToUpperCase(c) ==
  IF IsLower(c) THEN UpperLetters[CHOOSE i \in 1..26 : LowerLetters[i] = c] ELSE c

ToLowerCase(c) ==
  IF IsUpper(c) THEN LowerLetters[CHOOSE i \in 1..26 : UpperLetters[i] = c] ELSE c

UpperText(t) == [i \in 1..Len(t) |-> ToUpperCase(t[i])]

DigitValue(c) == (CHOOSE i \in 1..10 : Digits[i] = c) - 1

\* Number(numberString) / Number.parseInt(s, 10) of a non-empty digit string
RECURSIVE NumberOf(_)
NumberOf(ds) ==
  IF ds = <<>> THEN 0
  ELSE NumberOf(SubSeq(ds, 1, Len(ds) - 1)) * 10 + DigitValue(ds[Len(ds)])

\* (n).toString() of a non-negative integer
RECURSIVE NumberToString(_)
NumberToString(n) ==
  IF n < 10 THEN <<Digits[n + 1]>>
  ELSE Append(NumberToString(n \div 10), Digits[(n % 10) + 1])

CharAt(t, p) == IF p >= 1 /\ p <= Len(t) THEN t[p] ELSE "eof"

WordAt(t, p) == p >= 1 /\ p <= Len(t) /\ IsWordChar(t[p])

\* \b in front of t[p]
WordBoundary(t, p) == WordAt(t, p - 1) # WordAt(t, p)

\* the literal lit at position p, case-sensitive
MatchAt(t, p, lit) ==
  /\ p >= 1
  /\ p + Len(lit) - 1 <= Len(t)
  /\ \A i \in 1..Len(lit) : t[p + i - 1] = lit[i]

\* the literal lit at position p under the i flag
MatchAtIgnoreCase(t, p, lit) ==
  /\ p >= 1
  /\ p + Len(lit) - 1 <= Len(t)
  /\ \A i \in 1..Len(lit) : ToLowerCase(t[p + i - 1]) = ToLowerCase(lit[i])

\* length of the longest run of \w from p
WordRun(t, p) ==
  LET stops == {j \in p..Len(t) : ~IsWordChar(t[j])}
  IN  IF stops = {} THEN Len(t) - p + 1 ELSE Min(stops) - p

\* length of the longest run of \d from p
DigitRun(t, p) ==
  LET stops == {j \in p..Len(t) : ~IsDigit(t[j])}
  IN  IF stops = {} THEN Len(t) - p + 1 ELSE Min(stops) - p

\* length of the longest run of [\w-] from p
SlugRun(t, p) ==
  LET stops == {j \in p..Len(t) : ~(IsWordChar(t[j]) \/ t[j] = "-")}
  IN  IF stops = {} THEN Len(t) - p + 1 ELSE Min(stops) - p

\* length of the longest run of [\s:] from p
SeparatorRun(t, p) ==
  LET stops == {j \in p..Len(t) : ~(IsSpace(t[j]) \/ t[j] = ":")}
  IN  IF stops = {} THEN Len(t) - p + 1 ELSE Min(stops) - p

\* text.split(/\r?\n/)
RECURSIVE SplitLines(_)
SplitLines(t) ==
  LET nls == {j \in 1..Len(t) : t[j] = "\n"}
  IN  IF nls = {} THEN <<t>>
      ELSE LET n    == Min(nls)
               stop == IF n > 1 /\ t[n - 1] = "\r" THEN n - 2 ELSE n - 1
           IN  <<SubSeq(t, 1, stop)>> \o SplitLines(SubSeq(t, n + 1, Len(t)))

\* ------------------------------------------------- issue identifiers
\* An operator that needs an intermediate result more than once takes it as
\* a parameter of a second operator (XAt computes, XWith... decides).

MAX_KEY_LENGTH == 7

\* the {1,9} of the issue number in ISSUE_IDENTIFIER_REGEX and ISSUE_ID_CORE
MAX_NUMBER_DIGITS == 9

NoMatch == [found |-> FALSE]

\* ISSUE_IDENTIFIER_REGEX at start s, with k the \w run at s and d the digit
\* run behind the hyphen:
\*   (?:^|\b|(?<=_))((\w{1,7})-([0-9]{1,9}))(?:$|\b|(?=_))(?!\.\d)
\* \w{1,7} must be followed by "-", which is no \w, and [0-9]{1,9} by an end
\* boundary, which no digit gives: both runs are taken whole or not at all.
IssueIdentifierWithRuns(t, s, k, d) ==
  IF /\ (s = 1 \/ WordBoundary(t, s) \/ CharAt(t, s - 1) = "_")
     /\ k >= 1 /\ k <= MAX_KEY_LENGTH
     /\ CharAt(t, s + k) = "-"
     /\ d >= 1 /\ d <= MAX_NUMBER_DIGITS
     /\ (s + k + d = Len(t) \/ WordBoundary(t, s + k + 1 + d)
           \/ CharAt(t, s + k + 1 + d) = "_")
     /\ ~(CharAt(t, s + k + 1 + d) = "." /\ IsDigit(CharAt(t, s + k + 2 + d)))
  THEN [found |-> TRUE, end |-> s + k + 1 + d,
        rawIdentifier |-> SubSeq(t, s, s + k + d),
        teamKey |-> SubSeq(t, s, s + k - 1),
        numberString |-> SubSeq(t, s + k + 1, s + k + d)]
  ELSE NoMatch

IssueIdentifierWithKey(t, s, k) ==
  IssueIdentifierWithRuns(t, s, k, DigitRun(t, s + k + 1))

IssueIdentifierAt(t, s) == IssueIdentifierWithKey(t, s, WordRun(t, s))

\* variant: leading zeros are dropped, not rejected
ParsedDroppingZeros(match, n) ==
  <<[rawIdentifier |-> match.rawIdentifier,
     identifier |-> UpperText(match.teamKey) \o <<"-">> \o n]>>

\* the identifier of a match whose number is n
ParsedWithNumber(match, n) ==
  IF Len(n) # Len(match.numberString) THEN <<>>
  ELSE <<[rawIdentifier |-> match.rawIdentifier,
          identifier |-> UpperText(match.teamKey) \o <<"-">> \o n]>>

\* parseMatch: <<>> when rejected (a leading zero), else the one parsed match
parseMatch(match) ==
  ParsedWithNumber(match, NumberToString(NumberOf(match.numberString)))

\* the exec loop of matchAllIdentifiers from lastIndex p
RECURSIVE MatchIdentifiersFrom(_, _)
IdentifiersFromMatch(t, m) == parseMatch(m) \o MatchIdentifiersFrom(t, m.end)

IdentifiersFromStarts(t, starts) ==
  IF starts = {} THEN <<>>
  ELSE IdentifiersFromMatch(t, IssueIdentifierAt(t, Min(starts)))

MatchIdentifiersFrom(t, p) ==
  IdentifiersFromStarts(t, {s \in p..Len(t) : IssueIdentifierAt(t, s).found})

matchAllIdentifiers(text) == MatchIdentifiersFrom(text, 1)

\* ------------------------------------------------- Linear issue URLs

HttpLiteral == <<"h","t","t","p">>

LinearAppLiteral == <<":","/","/","l","i","n","e","a","r",".","a","p","p","/">>

IssuePathLiteral == <<"/","i","s","s","u","e","/">>

\* (?:\/[\w-]*)* from p: every "/" takes the whole [\w-] run behind it
RECURSIVE UrlTailEnd(_, _)
UrlTailEnd(t, p) ==
  IF CharAt(t, p) = "/" THEN UrlTailEnd(t, p + 1 + SlugRun(t, p + 1)) ELSE p

\* https?:\/\/linear\.app\/ at s: the position behind it, 0 when no match
UrlHostEnd(t, s) ==
  IF ~MatchAtIgnoreCase(t, s, HttpLiteral) THEN 0
  ELSE IF /\ ToLowerCase(CharAt(t, s + Len(HttpLiteral))) = "s"
          /\ MatchAtIgnoreCase(t, s + Len(HttpLiteral) + 1, LinearAppLiteral)
       THEN s + Len(HttpLiteral) + 1 + Len(LinearAppLiteral)
  ELSE IF MatchAtIgnoreCase(t, s + Len(HttpLiteral), LinearAppLiteral)
       THEN s + Len(HttpLiteral) + Len(LinearAppLiteral)
  ELSE 0

\* (\w{1,7}-[0-9]{1,9})(?:\/[\w-]*)* at key, with k the \w run at key and r
\* the digit run behind the hyphen; the digits are greedy, at most 9
UrlIssueWithRuns(t, key, k, r) ==
  IF k >= 1 /\ k <= MAX_KEY_LENGTH /\ CharAt(t, key + k) = "-" /\ r >= 1
  THEN IF r > MAX_NUMBER_DIGITS
       THEN [found |-> TRUE, end |-> UrlTailEnd(t, key + k + 1 + MAX_NUMBER_DIGITS),
             group1 |-> SubSeq(t, key, key + k + MAX_NUMBER_DIGITS)]
       ELSE [found |-> TRUE, end |-> UrlTailEnd(t, key + k + 1 + r),
             group1 |-> SubSeq(t, key, key + k + r)]
  ELSE NoMatch

UrlIssueWithKey(t, key, k) == UrlIssueWithRuns(t, key, k, DigitRun(t, key + k + 1))

\* [\w-]+\/issue\/ from org, with o the [\w-] run at org, then the identifier
UrlWithOrg(t, org, o) ==
  IF org > 0 /\ o >= 1 /\ MatchAtIgnoreCase(t, org + o, IssuePathLiteral)
  THEN UrlIssueWithKey(t, org + o + Len(IssuePathLiteral),
                       WordRun(t, org + o + Len(IssuePathLiteral)))
  ELSE NoMatch

UrlAfterHost(t, org) == UrlWithOrg(t, org, SlugRun(t, org))

\* LINEAR_ISSUE_URL_REGEX anchored at start s:
\*   https?:\/\/linear\.app\/[\w-]+\/issue\/(\w{1,7}-[0-9]{1,9})(?:\/[\w-]*)*
LinearIssueUrlAt(t, s) == UrlAfterHost(t, UrlHostEnd(t, s))

\* text.replace(LINEAR_ISSUE_URL_REGEX, "$1") from position p
RECURSIVE ReplaceUrlsFrom(_, _)
ReplaceUrl(t, p, s, m) == SubSeq(t, p, s - 1) \o m.group1 \o ReplaceUrlsFrom(t, m.end)

ReplaceFirstUrl(t, p, s) == ReplaceUrl(t, p, s, LinearIssueUrlAt(t, s))

ReplaceUrlsAmong(t, p, starts) ==
  IF starts = {} THEN SubSeq(t, p, Len(t)) ELSE ReplaceFirstUrl(t, p, Min(starts))

ReplaceUrlsFrom(t, p) ==
  ReplaceUrlsAmong(t, p, {s \in p..Len(t) : LinearIssueUrlAt(t, s).found})

normalizeLinearUrls(text) == ReplaceUrlsFrom(text, 1)

\* ------------------------------------------------------- magic words

CLOSING_WORDS ==
  <<<<"c","l","o","s","e">>,
    <<"c","l","o","s","e","s">>,
    <<"c","l","o","s","e","d">>,
    <<"c","l","o","s","i","n","g">>,
    <<"f","i","x">>,
    <<"f","i","x","e","s">>,
    <<"f","i","x","e","d">>,
    <<"f","i","x","i","n","g">>,
    <<"r","e","s","o","l","v","e">>,
    <<"r","e","s","o","l","v","e","s">>,
    <<"r","e","s","o","l","v","e","d">>,
    <<"r","e","s","o","l","v","i","n","g">>,
    <<"c","o","m","p","l","e","t","e">>,
    <<"c","o","m","p","l","e","t","e","s">>,
    <<"c","o","m","p","l","e","t","e","d">>,
    <<"c","o","m","p","l","e","t","i","n","g">> >>

CONTRIBUTING_PHRASES ==
  <<<<"r","e","f">>,
    <<"r","e","f","s">>,
    <<"r","e","f","e","r","e","n","c","e","s">>,
    <<"p","a","r","t"," ","o","f">>,
    <<"r","e","l","a","t","e","d"," ","t","o">>,
    <<"r","e","l","a","t","e","s"," ","t","o">>,
    <<"c","o","n","t","r","i","b","u","t","e","s"," ","t","o">>,
    <<"t","o","w","a","r","d","s">>,
    <<"t","o","w","a","r","d">> >>

\* [...CLOSING_WORDS, ...CONTRIBUTING_PHRASES], the alternation in its order
MagicWords == CLOSING_WORDS \o CONTRIBUTING_PHRASES

AndLiteral == <<"a","n","d">>

\* ISSUE_ID_CORE at c, with k the \w run at c and r the digit run behind the
\* hyphen: \w{1,7}-[0-9]{1,9}(?!\.\d); 0 when it does not match, else the
\* end. [0-9]{1,9} is greedy and gives digits back until the lookahead holds.
IssueIdCoreWithDigits(t, n, ds) == IF ds = {} THEN 0 ELSE n + Max(ds)

IssueIdCoreWithRuns(t, c, k, r) ==
  IF k >= 1 /\ k <= MAX_KEY_LENGTH /\ CharAt(t, c + k) = "-"
  THEN IssueIdCoreWithDigits(t, c + k + 1,
         {d \in 1..(IF r > MAX_NUMBER_DIGITS THEN MAX_NUMBER_DIGITS ELSE r) :
            ~(CharAt(t, c + k + 1 + d) = "." /\ IsDigit(CharAt(t, c + k + 2 + d)))})
  ELSE 0

IssueIdCoreWithKey(t, c, k) == IssueIdCoreWithRuns(t, c, k, DigitRun(t, c + k + 1))

IssueIdCoreEnd(t, c) == IssueIdCoreWithKey(t, c, WordRun(t, c))

\* one atom of (?:[\s,]|\band\b|&) at p: its end, 0 when none matches
SeparatorAtomEnd(t, p) ==
  IF IsSpace(CharAt(t, p)) \/ CharAt(t, p) = "," THEN p + 1
  ELSE IF /\ MatchAtIgnoreCase(t, p, AndLiteral)
          /\ WordBoundary(t, p)
          /\ WordBoundary(t, p + Len(AndLiteral))
       THEN p + Len(AndLiteral)
  ELSE IF CharAt(t, p) = "&" THEN p + 1
  ELSE 0

\* the positions (?:[\s,]|\band\b|&)+ can end at from p, shortest first
RECURSIVE SeparatorEnds(_, _)
SeparatorEndsWith(t, e) == IF e = 0 THEN <<>> ELSE <<e>> \o SeparatorEnds(t, e)

SeparatorEnds(t, p) == SeparatorEndsWith(t, SeparatorAtomEnd(t, p))

\* (?:(?:[\s,]|\band\b|&)+ISSUE_ID_CORE)* from e: the end of the last
\* identifier taken. The separators are greedy: the longest run after which
\* an identifier matches is the one taken.
RECURSIVE IssueKeysEnd(_, _)
IssueKeysEndAmong(t, e, seps, ok) ==
  IF ok = {} THEN e ELSE IssueKeysEnd(t, IssueIdCoreEnd(t, seps[Max(ok)]))

IssueKeysEndWith(t, e, seps) ==
  IssueKeysEndAmong(t, e, seps, {j \in 1..Len(seps) : IssueIdCoreEnd(t, seps[j]) # 0})

IssueKeysEnd(t, e) == IssueKeysEndWith(t, e, SeparatorEnds(t, e))

\* [\s:]+ISSUE_ID_CORE at p, with n the [\s:] run at p: the start of the
\* identifier, 0 when there is no match
MagicKeysWithRun(t, p, n) ==
  IF n >= 1 /\ IssueIdCoreEnd(t, p + n) # 0 THEN p + n ELSE 0

\* the magic word w and [\s:]+ISSUE_ID_CORE at s
MagicKeysStart(t, s, w) ==
  IF MatchAtIgnoreCase(t, s, w)
  THEN MagicKeysWithRun(t, s + Len(w), SeparatorRun(t, s + Len(w)))
  ELSE 0

\* the alternation of the magic words at s, in its order
MagicKeysAmong(t, s, ws) ==
  IF ws = {} THEN 0 ELSE MagicKeysStart(t, s, MagicWords[Min(ws)])

MagicMatch(t, c, e) ==
  [found |-> TRUE, end |-> e, issueKeysPortion |-> SubSeq(t, c, e - 1)]

MagicMatchWithKeys(t, c) ==
  IF c = 0 THEN NoMatch ELSE MagicMatch(t, c, IssueKeysEnd(t, IssueIdCoreEnd(t, c)))

\* MAGIC_WORD_REGEX anchored at start s:
\*   \b(words)[\s:]+(ISSUE_ID_CORE(?:(?:[\s,]|\band\b|&)+ISSUE_ID_CORE)*)
MagicWordAt(t, s) ==
  IF WordBoundary(t, s)
  THEN MagicMatchWithKeys(t, MagicKeysAmong(t, s,
         {i \in 1..Len(MagicWords) : MagicKeysStart(t, s, MagicWords[i]) # 0}))
  ELSE NoMatch

\* the exec loop of matchMagicWordIdentifiers over one line, from lastIndex p
RECURSIVE MagicMatchesFrom(_, _)
MagicMatchesWith(line, m) ==
  matchAllIdentifiers(m.issueKeysPortion) \o MagicMatchesFrom(line, m.end)

MagicMatchesAmong(line, starts) ==
  IF starts = {} THEN <<>> ELSE MagicMatchesWith(line, MagicWordAt(line, Min(starts)))

MagicMatchesFrom(line, p) ==
  MagicMatchesAmong(line, {s \in p..Len(line) : MagicWordAt(line, s).found})

RECURSIVE MagicMatchesOfLines(_)
MagicMatchesOfLines(lines) ==
  IF lines = <<>> THEN <<>>
  ELSE MagicMatchesFrom(normalizeLinearUrls(Head(lines)), 1)
         \o MagicMatchesOfLines(Tail(lines))

\* variant: every identifier of the text, magic word or not
matchMessageIdentifiers(text) == matchAllIdentifiers(text)

matchMagicWordIdentifiers(text) == MagicMatchesOfLines(SplitLines(text))

\* ----------------------------------------------------- revert parsing

RevertBranchLiteral == <<"r","e","v","e","r","t","-">>

RevertMessageLiteral == <<"R","e","v","e","r","t"," ","\"">>

\* /^revert-\d+-/i at p, with d the digit run behind "revert-": the length of
\* the match, 0 when there is none
RevertPrefixWithRun(t, p, d) ==
  IF /\ MatchAtIgnoreCase(t, p, RevertBranchLiteral)
     /\ d >= 1
     /\ CharAt(t, p + Len(RevertBranchLiteral) + d) = "-"
  THEN Len(RevertBranchLiteral) + d + 1
  ELSE 0

RevertPrefixLen(t, p) ==
  RevertPrefixWithRun(t, p, DigitRun(t, p + Len(RevertBranchLiteral)))

\* the while loop of parseRevertBranch
RECURSIVE StripRevertPrefixes(_, _)
StripRevertPrefix(name, depth, n) ==
  IF n > 0 THEN StripRevertPrefixes(SubSeq(name, n + 1, Len(name)), depth + 1)
  ELSE [depth |-> depth, inner |-> name]

StripRevertPrefixes(name, depth) == StripRevertPrefix(name, depth, RevertPrefixLen(name, 1))

\* branchName.replace(/^.*\/(?=revert-\d+-)/i, ""): cuts are the slashes the
\* pattern can end at, .* takes it to the last of them
StripOrgPrefix(branchName, cuts) ==
  IF cuts = {} THEN branchName
  ELSE SubSeq(branchName, Max(cuts) + 1, Len(branchName))

parseRevertBranch(branchName) ==
  StripRevertPrefixes(
    StripOrgPrefix(branchName,
      {j \in 1..Len(branchName) :
         /\ branchName[j] = "/"
         /\ RevertPrefixLen(branchName, j + 1) > 0
         /\ \A i \in 1..(j - 1) : ~IsLineTerminator(branchName[i])}),
    0)

getRevertBranchDepth(branchName) ==
  IF branchName = Null \/ branchName = <<>> THEN 0 ELSE parseRevertBranch(branchName).depth

\* the while loop of parseRevertMessage: the test is /^Revert "/i, the unwrap
\* is text.match(/^Revert "(.+)"(.*)$/s), case-sensitive, (.+) up to the last
\* quote that leaves it a character
RECURSIVE UnwrapRevertMessage(_, _)
\* variant: a wrapper without its closing quote runs to the end of the text
UnwrapToEndOfText(text, depth, quotes) ==
  IF /\ MatchAtIgnoreCase(text, 1, RevertMessageLiteral)
     /\ MatchAt(text, 1, RevertMessageLiteral)
  THEN IF quotes # {}
       THEN UnwrapRevertMessage(
              SubSeq(text, Len(RevertMessageLiteral) + 1, Max(quotes) - 1), depth + 1)
       ELSE [depth |-> depth + 1,
             inner |-> SubSeq(text, Len(RevertMessageLiteral) + 1, Len(text))]
  ELSE [depth |-> depth, inner |-> text]

UnwrapWithQuotes(text, depth, quotes) ==
  IF /\ MatchAtIgnoreCase(text, 1, RevertMessageLiteral)
     /\ MatchAt(text, 1, RevertMessageLiteral)
     /\ quotes # {}
  THEN UnwrapRevertMessage(
         SubSeq(text, Len(RevertMessageLiteral) + 1, Max(quotes) - 1), depth + 1)
  ELSE [depth |-> depth, inner |-> text]

UnwrapRevertMessage(text, depth) ==
  UnwrapWithQuotes(text, depth,
    {q \in (Len(RevertMessageLiteral) + 2)..Len(text) : text[q] = "\""})

\* variant: the depth is counted from 1
parseRevertMessageFromOne(message) == UnwrapRevertMessage(message, 1)

parseRevertMessage(message) == UnwrapRevertMessage(message, 0)

getRevertMessageDepth(message) ==
  IF message = Null \/ message = <<>> THEN 0 ELSE parseRevertMessage(message).depth

\* ------------------------------------------------------- extractors

\* commit.branchName ?? "", commit.message ?? ""
OrEmpty(field) == IF field = Null THEN <<>> ELSE field

\* found.has(identifier) on the entries collected so far
HasIdentifier(found, identifier) ==
  \E i \in 1..Len(found) : found[i].identifier = identifier

\* for (const match of matches) if (!found.has(...)) found.set(...)
RECURSIVE CollectFound(_, _, _)
CollectOne(found, match, source) ==
  IF HasIdentifier(found, match.identifier) THEN found
  ELSE Append(found, [identifier |-> match.identifier,
                      rawIdentifier |-> match.rawIdentifier,
                      source |-> source])

CollectFound(found, matches, source) ==
  IF matches = <<>> THEN found
  ELSE CollectFound(CollectOne(found, Head(matches), source), Tail(matches), source)

\* the {identifier, source} entries handed to scanCommits
Extracted(found) ==
  [i \in 1..Len(found) |-> [identifier |-> found[i].identifier, source |-> found[i].source]]

\* extractLinearIssueIdentifiersForCommit once the branch is parsed
\* variant: every revert branch or revert message blocks the added path,
\* whatever its depth
AddedUnlessRevert(branch, message) ==
  IF branch.depth >= 1 THEN <<>>
  ELSE IF parseRevertMessage(message).depth >= 1 THEN <<>>
  ELSE Extracted(
         CollectFound(
           IF Len(branch.inner) > 0
           THEN CollectFound(<<>>, matchAllIdentifiers(branch.inner), "branch_name")
           ELSE <<>>,
           IF Len(message) > 0 THEN matchMagicWordIdentifiers(message) ELSE <<>>,
           "commit_message"))

\* variant: only the depth of the message blocks the added path
AddedUnlessMessageRevert(branch, message) ==
  IF parseRevertMessage(message).depth % 2 = 1 THEN <<>>
  ELSE Extracted(
         CollectFound(
           IF Len(branch.inner) > 0
           THEN CollectFound(<<>>, matchAllIdentifiers(branch.inner), "branch_name")
           ELSE <<>>,
           IF Len(message) > 0 THEN matchMagicWordIdentifiers(message) ELSE <<>>,
           "commit_message"))

\* variant: the identifiers of the branch count only when it is no revert
\* branch at all
AddedOfOrdinaryBranch(branch, message) ==
  IF branch.depth % 2 = 1 THEN <<>>
  ELSE IF parseRevertMessage(message).depth % 2 = 1 THEN <<>>
  ELSE Extracted(
         CollectFound(
           IF Len(branch.inner) > 0 /\ branch.depth = 0
           THEN CollectFound(<<>>, matchAllIdentifiers(branch.inner), "branch_name")
           ELSE <<>>,
           IF Len(message) > 0 THEN matchMagicWordIdentifiers(message) ELSE <<>>,
           "commit_message"))

\* variant: the added path is blocked only when both depths are odd
AddedUnlessBothRevert(branch, message) ==
  IF branch.depth % 2 = 1 /\ parseRevertMessage(message).depth % 2 = 1 THEN <<>>
  ELSE Extracted(
         CollectFound(
           IF Len(branch.inner) > 0
           THEN CollectFound(<<>>, matchAllIdentifiers(branch.inner), "branch_name")
           ELSE <<>>,
           IF Len(message) > 0 THEN matchMagicWordIdentifiers(message) ELSE <<>>,
           "commit_message"))

\* variant: the added path skips every message that begins with Revert ",
\* as the pull request extractor does
AddedUnlessRevertTitle(branch, message) ==
  IF branch.depth % 2 = 1 THEN <<>>
  ELSE IF MatchAtIgnoreCase(message, 1, RevertMessageLiteral) THEN <<>>
  ELSE Extracted(
         CollectFound(
           IF Len(branch.inner) > 0
           THEN CollectFound(<<>>, matchAllIdentifiers(branch.inner), "branch_name")
           ELSE <<>>,
           IF Len(message) > 0 THEN matchMagicWordIdentifiers(message) ELSE <<>>,
           "commit_message"))

AddedWithBranch(branch, message) ==
  IF branch.depth % 2 = 1 THEN <<>>
  ELSE IF parseRevertMessage(message).depth % 2 = 1 THEN <<>>
  ELSE Extracted(
         CollectFound(
           IF Len(branch.inner) > 0
           THEN CollectFound(<<>>, matchAllIdentifiers(branch.inner), "branch_name")
           ELSE <<>>,
           IF Len(message) > 0 THEN matchMagicWordIdentifiers(message) ELSE <<>>,
           "commit_message"))

\* what a call leaves that threw a TypeError, in place of its entries
TypeError == <<[threw |-> "TypeError"]>>

\* variant: the fields are used as they come, and a method call on null throws
AddedOfFields(commit) ==
  IF commit.branchName = Null \/ commit.message = Null THEN TypeError
  ELSE AddedWithBranch(parseRevertBranch(commit.branchName), commit.message)

extractLinearIssueIdentifiersForCommit(commit) ==
  AddedWithBranch(parseRevertBranch(OrEmpty(commit.branchName)), OrEmpty(commit.message))

\* variant: any revert depth but 0 counts as a revert
RevertedAtAnyDepth(branch, message) ==
  IF branch.depth = 0 /\ message.depth = 0 THEN <<>>
  ELSE Extracted(
         CollectFound(
           IF branch.depth >= 1
           THEN CollectFound(<<>>, matchAllIdentifiers(branch.inner), "branch_name")
           ELSE <<>>,
           IF message.depth >= 1 THEN matchMagicWordIdentifiers(message.inner) ELSE <<>>,
           "commit_message"))

\* extractRevertedIssueIdentifiersForCommit once branch and message are
\* parsed: an odd branch depth gives the identifiers of the unwrapped branch,
\* an odd message depth the magic-word identifiers of the unwrapped message
RevertedWithParsed(branch, message) ==
  IF branch.depth = 0 /\ message.depth = 0 THEN <<>>
  ELSE Extracted(
         CollectFound(
           IF branch.depth % 2 = 1
           THEN CollectFound(<<>>, matchAllIdentifiers(branch.inner), "branch_name")
           ELSE <<>>,
           IF message.depth % 2 = 1 THEN matchMagicWordIdentifiers(message.inner) ELSE <<>>,
           "commit_message"))

\* its tests and its caller are in the repository, its body is not: taken
\* from the design of the reverted path
extractRevertedIssueIdentifiersForCommit(commit) ==
  RevertedWithParsed(parseRevertBranch(OrEmpty(commit.branchName)),
                     parseRevertMessage(OrEmpty(commit.message)))

MergeLiteral ==
  <<"M","e","r","g","e"," ","p","u","l","l"," ","r","e","q","u","e","s","t"," ","#">>

\* title.match(/\(#(\d+)\)$/) with starts the positions it can start at: the
\* number, as a list of none or one
SquashNumber(title, starts) ==
  IF starts = {} THEN <<>>
  ELSE <<NumberOf(SubSeq(title, Min(starts) + 2, Len(title) - 1))>>

SquashMatch(title) ==
  SquashNumber(title,
    {s \in 1..(Len(title) - 3) :
       /\ title[s] = "(" /\ title[s + 1] = "#" /\ title[Len(title)] = ")"
       /\ \A i \in (s + 2)..(Len(title) - 1) : IsDigit(title[i])})

\* message.match(/^Merge pull request #(\d+)/i) with d the digit run behind
\* the "#": the number, none or one
MergeNumber(message, d) ==
  IF MatchAtIgnoreCase(message, 1, MergeLiteral) /\ d >= 1
  THEN <<NumberOf(SubSeq(message, Len(MergeLiteral) + 1, Len(MergeLiteral) + d))>>
  ELSE <<>>

MergeMatch(message) == MergeNumber(message, DigitRun(message, Len(MergeLiteral) + 1))

\* message.matchAll(/#(\d+)/g) from position p
RECURSIVE HashNumbersFrom(_, _)
HashNumberAt(message, s, e) ==
  <<NumberOf(SubSeq(message, s + 1, e - 1))>> \o HashNumbersFrom(message, e)

HashNumbersFirst(message, s) ==
  HashNumberAt(message, s, s + 1 + DigitRun(message, s + 1))

HashNumbersAmong(message, starts) ==
  IF starts = {} THEN <<>> ELSE HashNumbersFirst(message, Min(starts))

HashNumbersFrom(message, p) ==
  HashNumbersAmong(message,
    {s \in p..Len(message) : message[s] = "#" /\ DigitRun(message, s + 1) >= 1})

\* [...new Set(list)]
RECURSIVE Unique(_)
UniqueAppend(front, last) ==
  IF \E i \in 1..Len(front) : front[i] = last THEN front ELSE Append(front, last)

Unique(list) ==
  IF list = <<>> THEN <<>>
  ELSE UniqueAppend(Unique(SubSeq(list, 1, Len(list) - 1)), list[Len(list)])

\* variant: the fallback runs whatever the squash and merge forms gave
PullRequestsWithFallback(message, direct) ==
  Unique(direct \o HashNumbersFrom(message, 1))

\* the squash and merge numbers if there are any, else every #digits
PullRequestsWith(message, direct) ==
  IF Len(direct) = 0 THEN Unique(HashNumbersFrom(message, 1)) ELSE Unique(direct)

\* variant: a revert message blocks the numbers at an odd depth only
PullRequestsUnlessOddMessage(commit, message) ==
  IF parseRevertMessage(message).depth % 2 = 1 THEN <<>>
  ELSE IF getRevertBranchDepth(commit.branchName) % 2 = 1 THEN <<>>
  ELSE PullRequestsWith(message, SquashMatch(Head(SplitLines(message))) \o MergeMatch(message))

\* variant: a revert branch blocks the numbers at any depth
PullRequestsUnlessRevertBranch(commit, message) ==
  IF MatchAtIgnoreCase(message, 1, RevertMessageLiteral) THEN <<>>
  ELSE IF getRevertBranchDepth(commit.branchName) >= 1 THEN <<>>
  ELSE PullRequestsWith(message, SquashMatch(Head(SplitLines(message))) \o MergeMatch(message))

\* variant: the merge form is pushed before the squash form
PullRequestsMergeFirst(commit, message) ==
  IF MatchAtIgnoreCase(message, 1, RevertMessageLiteral) THEN <<>>
  ELSE IF getRevertBranchDepth(commit.branchName) % 2 = 1 THEN <<>>
  ELSE PullRequestsWith(message, MergeMatch(message) \o SquashMatch(Head(SplitLines(message))))

\* variant: the merge form is tried only when the squash form gave nothing
PullRequestsOfFirstForm(commit, message) ==
  IF MatchAtIgnoreCase(message, 1, RevertMessageLiteral) THEN <<>>
  ELSE IF getRevertBranchDepth(commit.branchName) % 2 = 1 THEN <<>>
  ELSE PullRequestsWith(message,
         IF SquashMatch(Head(SplitLines(message))) # <<>>
         THEN SquashMatch(Head(SplitLines(message)))
         ELSE MergeMatch(message))

PullRequestsOfMessage(commit, message) ==
  IF MatchAtIgnoreCase(message, 1, RevertMessageLiteral) THEN <<>>
  ELSE IF getRevertBranchDepth(commit.branchName) % 2 = 1 THEN <<>>
  ELSE PullRequestsWith(message, SquashMatch(Head(SplitLines(message))) \o MergeMatch(message))

extractPullRequestNumbersForCommit(commit) ==
  PullRequestsOfMessage(commit, OrEmpty(commit.message))

\* ------------------------------------------------------ the commits

\* branch "u/eng-1", message "Fixes ENG-1 (#7)"
\*   added ENG-1, pull request 7
AddEng1 ==
  [sha |-> "a1",
   branchName |-> <<"u","/","e","n","g","-","1">>,
   message |-> <<"F","i","x","e","s"," ","E","N","G","-","1"," ","(","#","7",")">>]

\* no branch, message 'Revert "Fixes ENG-1 (#7)"'
\*   reverted ENG-1
RevertEng1 ==
  [sha |-> "r1",
   branchName |-> Null,
   message |-> <<"R","e","v","e","r","t"," ","\"","F","i","x","e","s"," ","E","N","G","-","1"," ","(","#","7",")","\"">>]

\* branch "u/bac-39", message "Merge pull request #5 from o/u/bac-39"
\*   added BAC-39, pull request 5
MergeAdd ==
  [sha |-> "a2",
   branchName |-> <<"u","/","b","a","c","-","3","9">>,
   message |-> <<"M","e","r","g","e"," ","p","u","l","l"," ","r","e","q","u","e","s","t"," ","#","5"," ","f","r","o","m"," ","o","/","u","/","b","a","c","-","3","9">>]

\* branch "revert-5-u/bac-39", message "Merge pull request #6 from o/revert-5-u/bac-39"
\*   reverted BAC-39 (branch revert depth 1)
MergeRevert ==
  [sha |-> "r2",
   branchName |-> <<"r","e","v","e","r","t","-","5","-","u","/","b","a","c","-","3","9">>,
   message |-> <<"M","e","r","g","e"," ","p","u","l","l"," ","r","e","q","u","e","s","t"," ","#","6"," ","f","r","o","m"," ","o","/","r","e","v","e","r","t","-","5","-","u","/","b","a","c","-","3","9">>]

\* branch "revert-6-revert-5-u/bac-39",
\* message "Merge pull request #7 from o/revert-6-revert-5-u/bac-39"
\*   added BAC-39 (branch revert depth 2), pull request 7
MergeReAdd ==
  [sha |-> "ra2",
   branchName |-> <<"r","e","v","e","r","t","-","6","-","r","e","v","e","r","t","-","5","-","u","/","b","a","c","-","3","9">>,
   message |-> <<"M","e","r","g","e"," ","p","u","l","l"," ","r","e","q","u","e","s","t"," ","#","7"," ","f","r","o","m"," ","o","/","r","e","v","e","r","t","-","6","-","r","e","v","e","r","t","-","5","-","u","/","b","a","c","-","3","9">>]

\* no branch, message "See ENG-1 for #5 and #9"
\*   no identifier (no magic word), pull requests 5 and 9
Unrelated ==
  [sha |-> "n1",
   branchName |-> Null,
   message |-> <<"S","e","e"," ","E","N","G","-","1"," ","f","o","r"," ","#","5"," ","a","n","d"," ","#","9">>]

\* no branch, message "Fixes ENG-1 and BAC-39"
\*   added ENG-1 and BAC-39
AddBoth ==
  [sha |-> "a3",
   branchName |-> Null,
   message |-> <<"F","i","x","e","s"," ","E","N","G","-","1"," ","a","n","d"," ","B","A","C","-","3","9">>]

\* branch "revert-7-u/eng-1", message 'Revert "Closes BAC-39"'
\*   reverted ENG-1 (branch) and BAC-39 (message)
RevertBoth ==
  [sha |-> "r3",
   branchName |-> <<"r","e","v","e","r","t","-","7","-","u","/","e","n","g","-","1">>,
   message |-> <<"R","e","v","e","r","t"," ","\"","C","l","o","s","e","s"," ","B","A","C","-","3","9","\"">>]

\* the commits a scanned history is made of
Commits ==
  {AddEng1, RevertEng1, MergeAdd, MergeRevert, MergeReAdd, Unrelated, AddBoth, RevertBoth}

\* longest history scanned
MaxCommits == 3

\* the histories: every commit of a history is another commit
CommitLists ==
  UNION {{l \in [1..n -> Commits] : \A i, j \in 1..n : i # j => l[i] # l[j]}
           : n \in 0..MaxCommits}

IncludePathsChoices == {Null, <<"apps/web/**">>}

\* what the three extractors return for each commit
RevertedIdentifiers == [c \in Commits |-> extractRevertedIssueIdentifiersForCommit(c)]

AddedIdentifiers == [c \in Commits |-> extractLinearIssueIdentifiersForCommit(c)]

PullRequestNumbers == [c \in Commits |-> extractPullRequestNumbersForCommit(c)]

\* ------------------------------------------------------- scanCommits

\* Map / Record / Set of JavaScript keep insertion order: a Map is the list
\* of its [key, value] entries, a Set the list of its members.
MapHas(m, k) == \E i \in 1..Len(m) : m[i].key = k

MapGet(m, k) == m[CHOOSE i \in 1..Len(m) : m[i].key = k].value

\* variant: setting a key the Map holds moves the key to the end
MapSetMovingToEnd(m, k, v) ==
  Append(SelectSeq(m, LAMBDA e : e.key # k), [key |-> k, value |-> v])

MapSet(m, k, v) ==
  IF MapHas(m, k)
  THEN [i \in 1..Len(m) |-> IF m[i].key = k THEN [key |-> k, value |-> v] ELSE m[i]]
  ELSE Append(m, [key |-> k, value |-> v])

MapKeys(m) == {m[i].key : i \in 1..Len(m)}

SetHas(set, x) == \E i \in 1..Len(set) : set[i] = x

\* the locals of scanCommits before the loop
NewAccumulator(paths) ==
  [lastAction   |-> <<>>,
   addedRefs    |-> <<>>,
   revertedRefs |-> <<>>,
   prNumbersSet |-> <<>>,
   debugSink    |-> [inspectedShas  |-> <<>>,
                     issues         |-> <<>>,
                     revertedIssues |-> <<>>,
                     pullRequests   |-> <<>>,
                     includePaths   |-> paths]]

\* the IssueSource pushed for one extracted identifier
IssueSourceOf(commit, e) ==
  [sha    |-> commit.sha,
   source |-> e.source,
   value  |-> IF e.source = "branch_name" THEN OrEmpty(commit.branchName)
              ELSE OrEmpty(commit.message)]

\* variant: the latest observation of an identifier replaces the earlier ones
PushLatestSource(sink, identifier, entry) == MapSet(sink, identifier, <<entry>>)

\* variant: only the first observation of an identifier is kept
PushFirstSource(sink, identifier, entry) ==
  IF MapHas(sink, identifier) THEN sink ELSE MapSet(sink, identifier, <<entry>>)

\* sink[identifier] after `if (!sink[identifier]) sink[identifier] = []` and the push
PushSource(sink, identifier, entry) ==
  MapSet(sink, identifier,
         Append(IF MapHas(sink, identifier) THEN MapGet(sink, identifier) ELSE <<>>, entry))

\* variant: a reverted observation does not overwrite an earlier action
RecordRevertedFirstWins(acc, commit, e) ==
  [acc EXCEPT
     !.debugSink.revertedIssues = PushSource(@, e.identifier, IssueSourceOf(commit, e)),
     !.lastAction   = IF MapHas(@, e.identifier) THEN @
                      ELSE MapSet(@, e.identifier, "reverted"),
     !.revertedRefs = MapSet(@, e.identifier,
                             [identifier |-> e.identifier, commitSha |-> commit.sha])]

\* variant: a reverted observation leaves no trace in the audit trail
RecordRevertedUnaudited(acc, commit, e) ==
  [acc EXCEPT
     !.lastAction   = MapSet(@, e.identifier, "reverted"),
     !.revertedRefs = MapSet(@, e.identifier,
                             [identifier |-> e.identifier, commitSha |-> commit.sha])]

\* body of the loop over extractRevertedIssueIdentifiersForCommit(commit)
RecordReverted(acc, commit, e) ==
  [acc EXCEPT
     !.debugSink.revertedIssues = PushSource(@, e.identifier, IssueSourceOf(commit, e)),
     !.lastAction   = MapSet(@, e.identifier, "reverted"),
     !.revertedRefs = MapSet(@, e.identifier,
                             [identifier |-> e.identifier, commitSha |-> commit.sha])]

\* variant: an added observation does not overwrite an earlier action
RecordAddedFirstWins(acc, commit, e) ==
  [acc EXCEPT
     !.debugSink.issues = PushSource(@, e.identifier, IssueSourceOf(commit, e)),
     !.lastAction = IF MapHas(@, e.identifier) THEN @ ELSE MapSet(@, e.identifier, "added"),
     !.addedRefs  = MapSet(@, e.identifier,
                           [identifier |-> e.identifier, commitSha |-> commit.sha])]

\* variant: the reference of the first added observation is kept
RecordAddedKeepingRef(acc, commit, e) ==
  [acc EXCEPT
     !.debugSink.issues = PushSource(@, e.identifier, IssueSourceOf(commit, e)),
     !.lastAction = MapSet(@, e.identifier, "added"),
     !.addedRefs  = IF MapHas(@, e.identifier) THEN @
                    ELSE MapSet(@, e.identifier,
                                [identifier |-> e.identifier, commitSha |-> commit.sha])]

\* body of the loop over extractLinearIssueIdentifiersForCommit(commit)
RecordAdded(acc, commit, e) ==
  [acc EXCEPT
     !.debugSink.issues = PushSource(@, e.identifier, IssueSourceOf(commit, e)),
     !.lastAction = MapSet(@, e.identifier, "added"),
     !.addedRefs  = MapSet(@, e.identifier,
                           [identifier |-> e.identifier, commitSha |-> commit.sha])]

\* variant: the audit trail gets an entry for a number already seen, too
RecordPullRequestAlways(acc, commit, prNumber) ==
  [acc EXCEPT
     !.prNumbersSet = IF SetHas(@, prNumber) THEN @ ELSE Append(@, prNumber),
     !.debugSink.pullRequests =
        Append(@, [sha |-> commit.sha, number |-> prNumber,
                   value |-> OrEmpty(commit.message)])]

\* body of the loop over extractPullRequestNumbersForCommit(commit)
RecordPullRequest(acc, commit, prNumber) ==
  IF SetHas(acc.prNumbersSet, prNumber) THEN acc
  ELSE [acc EXCEPT
          !.prNumbersSet = Append(@, prNumber),
          !.debugSink.pullRequests =
             Append(@, [sha |-> commit.sha, number |-> prNumber,
                        value |-> OrEmpty(commit.message)])]

RECURSIVE RecordAllReverted(_, _, _)
RecordAllReverted(acc, commit, es) ==
  IF es = <<>> THEN acc
  ELSE RecordAllReverted(RecordReverted(acc, commit, Head(es)), commit, Tail(es))

RECURSIVE RecordAllAdded(_, _, _)
RecordAllAdded(acc, commit, es) ==
  IF es = <<>> THEN acc
  ELSE RecordAllAdded(RecordAdded(acc, commit, Head(es)), commit, Tail(es))

RECURSIVE RecordAllPullRequests(_, _, _)
RecordAllPullRequests(acc, commit, ns) ==
  IF ns = <<>> THEN acc
  ELSE RecordAllPullRequests(RecordPullRequest(acc, commit, Head(ns)), commit, Tail(ns))

\* variant: a commit that reverts something empties the set of pull requests
ScanCommitOfRevert(acc, commit) ==
  LET inspected == [acc EXCEPT !.debugSink.inspectedShas = Append(@, commit.sha)]
      reverted  == RecordAllReverted(inspected, commit, RevertedIdentifiers[commit])
      added     == RecordAllAdded(reverted, commit, AddedIdentifiers[commit])
  IN  RecordAllPullRequests(
        IF RevertedIdentifiers[commit] = <<>> THEN added
        ELSE [added EXCEPT !.prNumbersSet = <<>>],
        commit, PullRequestNumbers[commit])

\* one iteration of `for (const commit of commits)`
ScanCommit(acc, commit) ==
  LET inspected == [acc EXCEPT !.debugSink.inspectedShas = Append(@, commit.sha)]
      reverted  == RecordAllReverted(inspected, commit, RevertedIdentifiers[commit])
      added     == RecordAllAdded(reverted, commit, AddedIdentifiers[commit])
  IN  RecordAllPullRequests(added, commit, PullRequestNumbers[commit])

\* variant: the loop takes the commits newest first
RECURSIVE ScanLoopNewestFirst(_, _)
ScanLoopNewestFirst(acc, list) ==
  IF list = <<>> THEN acc
  ELSE ScanLoopNewestFirst(ScanCommit(acc, list[Len(list)]),
                           SubSeq(list, 1, Len(list) - 1))

\* `for (const commit of commits)`, continuing from acc
RECURSIVE ScanLoop(_, _)
ScanLoop(acc, list) ==
  IF list = <<>> THEN acc
  ELSE ScanLoop(ScanCommit(acc, Head(list)), Tail(list))

\* the partition of lastAction after the loop
RECURSIVE Partition(_, _, _)
Partition(acc, n, action) ==
  IF n = 0 THEN <<>>
  ELSE LET entry == acc.lastAction[n]
           front == Partition(acc, n - 1, action)
       IN  IF entry.value # action THEN front
           ELSE Append(front,
                       IF action = "added" THEN MapGet(acc.addedRefs, entry.key)
                       ELSE MapGet(acc.revertedRefs, entry.key))

\* variant: the lists are the recorded references, lastAction unread
BuildResultFromRefs(acc) ==
  [issueReferences         |-> [i \in 1..Len(acc.addedRefs) |-> acc.addedRefs[i].value],
   revertedIssueReferences |-> [i \in 1..Len(acc.revertedRefs) |-> acc.revertedRefs[i].value],
   prNumbers               |-> acc.prNumbersSet,
   debugSink               |-> acc.debugSink]

\* the value scanCommits returns
BuildResult(acc) ==
  [issueReferences         |-> Partition(acc, Len(acc.lastAction), "added"),
   revertedIssueReferences |-> Partition(acc, Len(acc.lastAction), "reverted"),
   prNumbers               |-> acc.prNumbersSet,
   debugSink               |-> acc.debugSink]

scanCommits(list, paths) == BuildResult(ScanLoop(NewAccumulator(paths), list))

\* ---------------------------------------------------------- the scanner

NoResult == [none |-> TRUE]

VARIABLES
  commits,       \* the argument of the call of scanCommits in progress
  includePaths,  \* its second argument
  pc,            \* "idle", "scanning" (in the loop), "done" (returned)
  scanned,       \* how many commits the loop has processed
  lastAction, addedRefs, revertedRefs, prNumbersSet, debugSink,  \* its locals
  result,        \* what the call returned, NoResult until it returns
  previous       \* what the call before this one returned, NoResult for the first

VARIABLES
  subject,       \* the commit handed to the three extractors
  branchWraps,   \* how many revert-N- prefixes were put before its branch name
  messageWraps,  \* how the message was wrapped, innermost wrapper first
  extracted      \* what the extractors returned for subject, NoResult before

VARIABLES
  retryPc,       \* where withRetry stands: "idle", "calling", "waiting", "returned", "thrown"
  attempt,       \* its loop variable
  invocations,   \* how many times fn was invoked
  failures,      \* the errors fn threw, in order
  delays,        \* the timers withRetry waited for, in ms, in order
  outcome        \* what withRetry returned or threw, NoResult before

scanner == <<commits, includePaths, pc, scanned, lastAction, addedRefs, revertedRefs,
             prNumbersSet, debugSink, result, previous>>

extraction == <<subject, branchWraps, messageWraps, extracted>>

retry == <<retryPc, attempt, invocations, failures, delays, outcome>>

vars == <<scanner, extraction, retry>>

\* the locals as one value
Accumulator ==
  [lastAction |-> lastAction, addedRefs |-> addedRefs, revertedRefs |-> revertedRefs,
   prNumbersSet |-> prNumbersSet, debugSink |-> debugSink]

SetAccumulator(acc) ==
  /\ lastAction' = acc.lastAction
  /\ addedRefs' = acc.addedRefs
  /\ revertedRefs' = acc.revertedRefs
  /\ prNumbersSet' = acc.prNumbersSet
  /\ debugSink' = acc.debugSink

\* no commit is under extraction
ExtractionIdle ==
  /\ subject = [sha |-> "s0", branchName |-> Null, message |-> Null]
  /\ branchWraps = 0
  /\ messageWraps = <<>>
  /\ extracted = NoResult

\* withRetry is not running
RetryIdle ==
  /\ retryPc = "idle"
  /\ attempt = 0
  /\ invocations = 0
  /\ failures = <<>>
  /\ delays = <<>>
  /\ outcome = NoResult

\* scanCommits is not running
ScannerIdle ==
  /\ commits = <<>>
  /\ includePaths = Null
  /\ pc = "idle"
  /\ scanned = 0
  /\ lastAction = <<>>
  /\ addedRefs = <<>>
  /\ revertedRefs = <<>>
  /\ prNumbersSet = <<>>
  /\ debugSink = NewAccumulator(Null).debugSink
  /\ result = NoResult
  /\ previous = NoResult

Init == ScannerIdle /\ ExtractionIdle /\ RetryIdle

\* variant: the audit trail is module state, not created by the call
CallKeepingSink(list, paths) ==
  /\ pc = "idle" \/ (pc = "done" /\ list = commits /\ paths = includePaths)
  /\ commits' = list
  /\ includePaths' = paths
  /\ pc' = "scanning"
  /\ scanned' = 0
  /\ lastAction' = <<>>
  /\ addedRefs' = <<>>
  /\ revertedRefs' = <<>>
  /\ prNumbersSet' = <<>>
  /\ debugSink' = [debugSink EXCEPT !.includePaths = paths]
  /\ previous' = IF pc = "done" THEN result ELSE NoResult
  /\ result' = NoResult
  /\ UNCHANGED <<extraction, retry>>

\* scanCommits(list, paths) is called and its locals are created; a call
\* after the first one repeats it with the same arguments
Call(list, paths) ==
  /\ pc = "idle" \/ (pc = "done" /\ list = commits /\ paths = includePaths)
  /\ commits' = list
  /\ includePaths' = paths
  /\ pc' = "scanning"
  /\ scanned' = 0
  /\ SetAccumulator(NewAccumulator(paths))
  /\ previous' = IF pc = "done" THEN result ELSE NoResult
  /\ result' = NoResult
  /\ UNCHANGED <<extraction, retry>>

\* the loop processes the next commit
ScanNext ==
  /\ pc = "scanning"
  /\ scanned < Len(commits)
  /\ SetAccumulator(ScanCommit(Accumulator, commits[scanned + 1]))
  /\ scanned' = scanned + 1
  /\ UNCHANGED <<commits, includePaths, pc, result, previous>>
  /\ UNCHANGED <<extraction, retry>>

\* the loop is over: the lists are built and returned
Return ==
  /\ pc = "scanning"
  /\ scanned = Len(commits)
  /\ result' = BuildResult(Accumulator)
  /\ pc' = "done"
  /\ UNCHANGED <<commits, includePaths, scanned, lastAction, addedRefs, revertedRefs,
                 prNumbersSet, debugSink, previous>>
  /\ UNCHANGED <<extraction, retry>>

Next ==
  \/ \E list \in CommitLists, paths \in IncludePathsChoices : Call(list, paths)
  \/ ScanNext
  \/ Return

Spec == Init /\ [][Next]_vars

\* ------------------------------------------------- the extractors at work

\* a branch with an identifier
BranchPlain ==
  <<"u","/","b","a","c","-","3","9">>

\* a magic word, an identifier, the squash form
MessageSquash ==
  <<"F","i","x","e","s"," ","E","N","G","-","1"," ","(","#","7",")">>

\* a bare identifier, then a magic word and another
MessageMixed ==
  <<"S","e","e"," ","L","I","N","-","1","1",","," ","f","i","x","e","s"," ","L","I","N","-",
    "2","2">>

\* the magic word on the line before the identifier
MessageOtherLine ==
  <<"F","i","x","e","s","\n","E","N","G","-","3"," ","s","e","e"," ","#","8">>

\* the merge form, an identifier without a magic word
MessageMerge ==
  <<"M","e","r","g","e"," ","p","u","l","l"," ","r","e","q","u","e","s","t"," ","#","5"," ",
    "f","r","o","m"," ","o","/","u","/","b","a","c","-","3","9">>

\* magic word and colon, a leading zero, a lower-case key
MessageLeadingZero ==
  <<"c","l","o","s","e","s",":"," ","l","i","n","-","0","0","0","4"," ","&"," ","B","A","C",
    "-","3","9">>

\* the squash form behind another #digits
MessageSquashAndHash ==
  <<"F","i","x"," ","#","3"," ","(","#","7",")">>

\* the merge form, another #digits in the body
MessageMergeAndHash ==
  <<"M","e","r","g","e"," ","p","u","l","l"," ","r","e","q","u","e","s","t"," ","#","5"," ",
    "f","r","o","m"," ","o","/","x","\n","\n","s","e","e"," ","#","9">>

\* the merge form and the squash form in one title, a third #digits between them
MessageMergeAndSquash ==
  <<"M","e","r","g","e"," ","p","u","l","l"," ","r","e","q","u","e","s","t"," ","#","5"," ",
    "f","r","o","m"," ","o","/","x"," ","#","9"," ","(","#","7",")">>

\* the merge form and the squash form with the same number
MessageMergeIsSquash ==
  <<"M","e","r","g","e"," ","p","u","l","l"," ","r","e","q","u","e","s","t"," ","#","7"," ",
    "f","r","o","m"," ","o","/","x"," ","(","#","7",")">>

\* no branch, BranchPlain, "f/LIN-0004-x" (a number with leading zeros),
\* "f/ABCDEFGH-12" (a team key of eight characters), "x_eng-2_y" (an
\* identifier between underscores), "main" (no identifier)
BranchSeeds ==
  {Null, BranchPlain,
   <<"f","/","L","I","N","-","0","0","0","4","-","x">>,
   <<"f","/","A","B","C","D","E","F","G","H","-","1","2">>,
   <<"x","_","e","n","g","-","2","_","y">>,
   <<"m","a","i","n">>}

\* no message, the messages above, "Add x" (nothing to extract)
MessageSeeds ==
  {Null, MessageSquash, MessageMixed, MessageOtherLine, MessageMerge, MessageLeadingZero,
   MessageSquashAndHash, MessageMergeAndHash, MessageMergeAndSquash, MessageMergeIsSquash,
   <<"A","d","d"," ","x">>}

MaxBranchWraps == 2

MaxMessageWraps == 2

\* the branch GitHub names for the revert of pull request 12 of branchName
RevertBranchOf(branchName) ==
  <<"r","e","v","e","r","t","-","1","2","-">> \o branchName

WrapStyles == {"quoted", "lowercase", "unclosed"}

\* the message of a revert of message: as git writes it, with a lower-case
\* "revert", or cut before the closing quote
RevertMessageOf(message, style) ==
  IF style = "quoted" THEN RevertMessageLiteral \o message \o <<"\"">>
  ELSE IF style = "lowercase"
       THEN <<"r">> \o Tail(RevertMessageLiteral) \o message \o <<"\"">>
       ELSE RevertMessageLiteral \o message

\* what scanCommits asks of the extractors for one commit
ExtractAll(commit) ==
  [added     |-> extractLinearIssueIdentifiersForCommit(commit),
   reverted  |-> extractRevertedIssueIdentifiersForCommit(commit),
   prNumbers |-> extractPullRequestNumbersForCommit(commit)]

ExtractInit ==
  /\ ScannerIdle
  /\ RetryIdle
  /\ \E branch \in BranchSeeds, message \in MessageSeeds :
       subject = [sha |-> "s1", branchName |-> branch, message |-> message]
  /\ branchWraps = 0
  /\ messageWraps = <<>>
  /\ extracted = NoResult

\* the commit is the merge of a revert of the branch
WrapBranch ==
  /\ extracted = NoResult
  /\ subject.branchName # Null
  /\ branchWraps < MaxBranchWraps
  /\ subject' = [subject EXCEPT !.branchName = RevertBranchOf(@)]
  /\ branchWraps' = branchWraps + 1
  /\ UNCHANGED <<messageWraps, extracted, scanner, retry>>

\* the commit is a revert of the commit with this message
WrapMessage(style) ==
  /\ extracted = NoResult
  /\ subject.message # Null
  /\ Len(messageWraps) < MaxMessageWraps
  /\ subject' = [subject EXCEPT !.message = RevertMessageOf(@, style)]
  /\ messageWraps' = Append(messageWraps, style)
  /\ UNCHANGED <<branchWraps, extracted, scanner, retry>>

\* the three extractors run on the commit
Extract ==
  /\ extracted = NoResult
  /\ extracted' = ExtractAll(subject)
  /\ UNCHANGED <<subject, branchWraps, messageWraps, scanner, retry>>

ExtractNext ==
  \/ WrapBranch
  \/ \E style \in WrapStyles : WrapMessage(style)
  \/ Extract

ExtractSpec == ExtractInit /\ [][ExtractNext]_vars

\* ------------------------------------------------------------ withRetry

MAX_ATTEMPTS == 3

BASE_DELAY_MS == 1000

NON_RETRYABLE_TYPES ==
  {"AuthenticationError", "Forbidden", "FeatureNotAccessible", "GraphqlError",
   "InvalidInput", "UserError", "UsageLimitExceeded"}

\* what fn can throw: an Error that is no LinearError, a LinearError with or
\* without a type ("none") and a status (0), a RatelimitedLinearError with or
\* without retryAfter (in seconds, 0 when absent)
Errors ==
  {[class |-> "Error", type |-> "none", status |-> 0, retryAfter |-> 0]}
  \cup [class : {"LinearError"},
        type : NON_RETRYABLE_TYPES \cup {"NetworkError", "Ratelimited", "none"},
        status : {0, 400, 429, 499, 500},
        retryAfter : {0}]
  \cup [class : {"RatelimitedLinearError"}, type : {"Ratelimited"}, status : {429},
        retryAfter : {0, 2}]

\* variant: the type alone decides
isRetryableByType(error) ==
  ~(error.class # "Error" /\ error.type # "none" /\ error.type \in NON_RETRYABLE_TYPES)

isRetryable(error) ==
  IF error.class # "Error"
  THEN IF error.type # "none" /\ error.type \in NON_RETRYABLE_TYPES THEN FALSE
       ELSE IF /\ error.status # 0
               /\ error.status >= 400 /\ error.status < 500 /\ error.status # 429
            THEN FALSE
            ELSE TRUE
  ELSE TRUE

getDelayMs(error, n) ==
  IF error.class = "RatelimitedLinearError" /\ error.retryAfter > 0
  THEN error.retryAfter * 1000
  ELSE BASE_DELAY_MS * 2 ^ (n - 1)

RetryInit == ScannerIdle /\ ExtractionIdle /\ RetryIdle

\* withRetry(fn) is called: the loop starts
CallWithRetry ==
  /\ retryPc = "idle"
  /\ attempt' = 1
  /\ retryPc' = "calling"
  /\ UNCHANGED <<invocations, failures, delays, outcome, scanner, extraction>>

\* fn is invoked and resolves: withRetry returns its value, here the number
\* of the invocation
FnResolves ==
  /\ retryPc = "calling"
  /\ attempt <= MAX_ATTEMPTS
  /\ invocations' = invocations + 1
  /\ outcome' = [kind |-> "returned", value |-> invocations + 1]
  /\ retryPc' = "returned"
  /\ UNCHANGED <<attempt, failures, delays, scanner, extraction>>

\* variant: the last attempt is told by attempt > MAX_ATTEMPTS
FnRejectsOnceMore(error) ==
  /\ retryPc = "calling"
  /\ attempt <= MAX_ATTEMPTS
  /\ invocations' = invocations + 1
  /\ failures' = Append(failures, error)
  /\ IF attempt > MAX_ATTEMPTS \/ ~isRetryable(error)
     THEN /\ outcome' = [kind |-> "thrown", error |-> error]
          /\ retryPc' = "thrown"
          /\ UNCHANGED delays
     ELSE /\ delays' = Append(delays, getDelayMs(error, attempt))
          /\ retryPc' = "waiting"
          /\ UNCHANGED outcome
  /\ UNCHANGED <<attempt, scanner, extraction>>

\* fn is invoked and rejects with error: the catch block throws it or sets
\* the timer
FnRejects(error) ==
  /\ retryPc = "calling"
  /\ attempt <= MAX_ATTEMPTS
  /\ invocations' = invocations + 1
  /\ failures' = Append(failures, error)
  /\ IF attempt = MAX_ATTEMPTS \/ ~isRetryable(error)
     THEN /\ outcome' = [kind |-> "thrown", error |-> error]
          /\ retryPc' = "thrown"
          /\ UNCHANGED delays
     ELSE /\ delays' = Append(delays, getDelayMs(error, attempt))
          /\ retryPc' = "waiting"
          /\ UNCHANGED outcome
  /\ UNCHANGED <<attempt, scanner, extraction>>

\* the timer fires: attempt++ and the next turn of the loop; the throw behind
\* the loop is never reached, the catch block of the last attempt throws
TimerFires ==
  /\ retryPc = "waiting"
  /\ attempt' = attempt + 1
  /\ retryPc' = "calling"
  /\ UNCHANGED <<invocations, failures, delays, outcome, scanner, extraction>>

RetryNext ==
  \/ CallWithRetry
  \/ FnResolves
  \/ \E error \in Errors : FnRejects(error)
  \/ TimerFires

RetrySpec == RetryInit /\ [][RetryNext]_vars

\* ------------------------------------------------------------ claims

\* what the claims say of a history is said of the extractors' answers
IdentifiersOf(es) == {es[i].identifier : i \in 1..Len(es)}

ObservedAdded(c) == IdentifiersOf(AddedIdentifiers[c])

ObservedReverted(c) == IdentifiersOf(RevertedIdentifiers[c])

\* the positions of the commits of list that observed id
Observers(list, id) ==
  {i \in 1..Len(list) : id \in ObservedAdded(list[i]) \cup ObservedReverted(list[i])}

ObservedIdentifiers(list) ==
  UNION {ObservedAdded(list[i]) \cup ObservedReverted(list[i]) : i \in 1..Len(list)}

FirstObserver(list, id) == list[Min(Observers(list, id))]

LastObserver(list, id) == list[Max(Observers(list, id))]

Reverse(list) == [i \in 1..Len(list) |-> list[Len(list) + 1 - i]]

AddedOf(r) == IdentifiersOf(r.issueReferences)

RevertedOf(r) == IdentifiersOf(r.revertedIssueReferences)

\* C1: last-write-wins. After a scan, every identifier some commit observed
\* is in the added list exactly when the last commit that observed it
\* observed it as added, and in the reverted list exactly when that commit
\* observed it as reverted.
LastWriteWins ==
  pc = "done" =>
    \A id \in ObservedIdentifiers(commits) :
      /\ id \in AddedOf(result) <=> id \in ObservedAdded(LastObserver(commits, id))
      /\ id \in RevertedOf(result) <=> id \in ObservedReverted(LastObserver(commits, id))

\* an identifier added by an earlier commit ends reverted by the last one
LastWriteWinsWitness ==
  /\ pc = "done"
  /\ \E id \in ObservedIdentifiers(commits) :
       /\ id \in ObservedAdded(FirstObserver(commits, id))
       /\ id \in ObservedReverted(LastObserver(commits, id))
       /\ id \in RevertedOf(result)

\* C2: after a scan the added and the reverted list share no identifier and
\* neither holds an identifier twice.
ListsDisjoint ==
  pc = "done" =>
    /\ AddedOf(result) \cap RevertedOf(result) = {}
    /\ Cardinality(AddedOf(result)) = Len(result.issueReferences)
    /\ Cardinality(RevertedOf(result)) = Len(result.revertedIssueReferences)

\* both lists are filled and some identifier was observed both ways
ListsDisjointWitness ==
  /\ pc = "done"
  /\ result.issueReferences # <<>>
  /\ result.revertedIssueReferences # <<>>
  /\ \E i, j \in 1..Len(commits) : ObservedAdded(commits[i]) \cap ObservedReverted(commits[j]) # {}

ChainIdentifier == <<"B","A","C","-","3","9">>

\* the add, the revert of it (branch depth 1), the revert of the revert (depth 2)
Chain == <<MergeAdd, MergeRevert, MergeReAdd>>

\* C3: scanning the add alone leaves the identifier added only, the add and
\* its revert reverted only, the add, the revert and the re-add added only.
ChainAddRevertReAdd ==
  pc = "done" =>
    /\ commits = SubSeq(Chain, 1, 1) =>
         ChainIdentifier \in AddedOf(result) /\ ChainIdentifier \notin RevertedOf(result)
    /\ commits = SubSeq(Chain, 1, 2) =>
         ChainIdentifier \notin AddedOf(result) /\ ChainIdentifier \in RevertedOf(result)
    /\ commits = Chain =>
         ChainIdentifier \in AddedOf(result) /\ ChainIdentifier \notin RevertedOf(result)

\* the whole chain has been scanned; its commits have revert depths 0, 1, 2
ChainWitness ==
  /\ pc = "done"
  /\ commits = Chain
  /\ getRevertBranchDepth(Chain[1].branchName) = 0
  /\ getRevertBranchDepth(Chain[2].branchName) = 1
  /\ getRevertBranchDepth(Chain[3].branchName) = 2
  /\ ChainIdentifier \in AddedOf(result)

\* C4: the commitSha of a reference is the sha of the last commit that
\* observed the identifier, which observed it the way the list says.
WinningCommitSha ==
  pc = "done" =>
    /\ \A i \in 1..Len(result.issueReferences) :
         LET ref == result.issueReferences[i]
         IN  /\ ref.commitSha = LastObserver(commits, ref.identifier).sha
             /\ ref.identifier \in ObservedAdded(LastObserver(commits, ref.identifier))
    /\ \A i \in 1..Len(result.revertedIssueReferences) :
         LET ref == result.revertedIssueReferences[i]
         IN  /\ ref.commitSha = LastObserver(commits, ref.identifier).sha
             /\ ref.identifier \in ObservedReverted(LastObserver(commits, ref.identifier))

\* an added reference whose identifier an earlier commit had added as well
WinningCommitShaWitness ==
  /\ pc = "done"
  /\ \E i \in 1..Len(result.issueReferences) :
       LET ref == result.issueReferences[i]
       IN  /\ ref.identifier \in ObservedAdded(FirstObserver(commits, ref.identifier))
           /\ FirstObserver(commits, ref.identifier).sha # ref.commitSha

\* C5: the locals after a prefix of the list, carried through the rest of
\* it, give the result of scanning the whole list in one pass.
PrefixThenRemainder ==
  /\ pc = "scanning" =>
       BuildResult(ScanLoop(Accumulator, SubSeq(commits, scanned + 1, Len(commits))))
         = scanCommits(commits, includePaths)
  /\ pc = "done" => result = scanCommits(commits, includePaths)

\* a strict, non-empty prefix has left identifiers and pull requests behind
PrefixThenRemainderWitness ==
  /\ pc = "scanning"
  /\ scanned > 0
  /\ scanned < Len(commits)
  /\ lastAction # <<>>
  /\ prNumbersSet # <<>>
  /\ ObservedIdentifiers(SubSeq(commits, scanned + 1, Len(commits))) # {}

\* C6: a second call with the same arguments returns what the first one
\* returned: nothing of a call is left for the next.
ScanDeterministic ==
  (pc = "done" /\ previous # NoResult) => result = previous

\* a second call has returned identifiers and pull requests
ScanDeterministicWitness ==
  /\ pc = "done"
  /\ previous # NoResult
  /\ result.issueReferences # <<>>
  /\ result.revertedIssueReferences # <<>>
  /\ result.prNumbers # <<>>

\* C7 as claimed: every identifier observed both as added and as reverted
\* lands, when the reversed list is scanned, in the other list.
ReverseInvertsAll ==
  pc = "done" =>
    \A id \in ObservedIdentifiers(commits) :
      (\E i, j \in 1..Len(commits) :
          id \in ObservedAdded(commits[i]) /\ id \in ObservedReverted(commits[j]))
      => /\ id \in AddedOf(result)
              => id \in RevertedOf(scanCommits(Reverse(commits), includePaths))
         /\ id \in RevertedOf(result)
              => id \in AddedOf(scanCommits(Reverse(commits), includePaths))

\* an identifier's first and last observers observed it through opposite paths
EndsDiffer(list, id) ==
  (id \in ObservedAdded(FirstObserver(list, id)))
    # (id \in ObservedAdded(LastObserver(list, id)))

\* C7: scanning the reversed list lets the oldest observation win: an
\* identifier lands in the other list exactly when its oldest and its newest
\* observing commit observed it through opposite paths, and in the same list
\* otherwise.
ReverseInvertsWhenEndsDiffer ==
  pc = "done" =>
    \A id \in ObservedIdentifiers(commits) :
      LET reversed == scanCommits(Reverse(commits), includePaths)
      IN  /\ id \in AddedOf(reversed) <=> id \in ObservedAdded(FirstObserver(commits, id))
          /\ id \in RevertedOf(reversed)
               <=> id \in ObservedReverted(FirstObserver(commits, id))
          /\ EndsDiffer(commits, id)
               <=> ((id \in AddedOf(result)) # (id \in AddedOf(reversed)))

\* an identifier added first and reverted last: reverted in order, added reversed
ReverseInvertsWitness ==
  /\ pc = "done"
  /\ \E id \in ObservedIdentifiers(commits) :
       /\ EndsDiffer(commits, id)
       /\ id \in RevertedOf(result)
       /\ id \in AddedOf(scanCommits(Reverse(commits), includePaths))

\* C8: the audit trail has entries for exactly the identifiers the commits
\* scanned so far produced, the added in issues and the reverted in
\* revertedIssues; after the scan they are the identifiers of the two lists.
AuditTrailIdentifiers ==
  /\ MapKeys(debugSink.issues)
       = UNION {ObservedAdded(commits[i]) : i \in 1..scanned}
  /\ MapKeys(debugSink.revertedIssues)
       = UNION {ObservedReverted(commits[i]) : i \in 1..scanned}
  /\ pc = "done" =>
       MapKeys(result.debugSink.issues) \cup MapKeys(result.debugSink.revertedIssues)
         = AddedOf(result) \cup RevertedOf(result)

\* the scan has put identifiers in both parts of the audit trail
AuditTrailIdentifiersWitness ==
  /\ pc = "done"
  /\ result.debugSink.issues # <<>>
  /\ result.debugSink.revertedIssues # <<>>
  /\ MapKeys(result.debugSink.issues) # MapKeys(result.debugSink.revertedIssues)

SourceShas(sources) == {sources[i].sha : i \in 1..Len(sources)}

\* C9: for every added reference the audit trail has an issues entry of its
\* identifier with the reference's sha, and for every reverted reference a
\* revertedIssues entry with its sha.
AuditTrailHasWinner ==
  pc = "done" =>
    /\ \A i \in 1..Len(result.issueReferences) :
         LET ref == result.issueReferences[i]
         IN  /\ MapHas(result.debugSink.issues, ref.identifier)
             /\ ref.commitSha \in SourceShas(MapGet(result.debugSink.issues, ref.identifier))
    /\ \A i \in 1..Len(result.revertedIssueReferences) :
         LET ref == result.revertedIssueReferences[i]
         IN  /\ MapHas(result.debugSink.revertedIssues, ref.identifier)
             /\ ref.commitSha
                  \in SourceShas(MapGet(result.debugSink.revertedIssues, ref.identifier))

\* the winner of an added reference is not the only added source of it
AuditTrailHasWinnerWitness ==
  /\ pc = "done"
  /\ \E i \in 1..Len(result.issueReferences) :
       Len(MapGet(result.debugSink.issues, result.issueReferences[i].identifier)) > 1

\* the positions of the commits of list that yielded pull request n
Yielders(list, n) ==
  {i \in 1..Len(list) :
     \E k \in 1..Len(PullRequestNumbers[list[i]]) : PullRequestNumbers[list[i]][k] = n}

FirstYielder(list, n) == list[Min(Yielders(list, n))]

\* where the first commit that yielded n stands, then where n stands in it
YieldRank(list, n) ==
  LET numbers == PullRequestNumbers[FirstYielder(list, n)]
  IN  <<Min(Yielders(list, n)), CHOOSE k \in 1..Len(numbers) : numbers[k] = n>>

\* C10: prNumbers holds every pull request number once, in the order of the
\* first commits that yielded them; the audit trail has one entry per number,
\* in that order, with the sha and the message of that first commit.
PullRequestsOnce ==
  pc = "done" =>
    /\ {result.prNumbers[i] : i \in 1..Len(result.prNumbers)}
         = UNION {{PullRequestNumbers[commits[i]][k] :
                     k \in 1..Len(PullRequestNumbers[commits[i]])} : i \in 1..Len(commits)}
    /\ \A i, j \in 1..Len(result.prNumbers) :
         i < j =>
           LET a == YieldRank(commits, result.prNumbers[i])
               b == YieldRank(commits, result.prNumbers[j])
           IN  a[1] < b[1] \/ (a[1] = b[1] /\ a[2] < b[2])
    /\ Len(result.debugSink.pullRequests) = Len(result.prNumbers)
    /\ \A i \in 1..Len(result.prNumbers) :
         result.debugSink.pullRequests[i]
           = [sha    |-> FirstYielder(commits, result.prNumbers[i]).sha,
              number |-> result.prNumbers[i],
              value  |-> OrEmpty(FirstYielder(commits, result.prNumbers[i]).message)]

\* a later commit yielded a number an earlier commit had yielded
PullRequestsOnceWitness ==
  /\ pc = "done"
  /\ \E i \in 1..Len(result.prNumbers) :
       Cardinality(Yielders(commits, result.prNumbers[i])) > 1

\* what the two parsers make of the commit under extraction
BranchParsed == parseRevertBranch(OrEmpty(subject.branchName))

MessageParsed == parseRevertMessage(OrEmpty(subject.message))

\* the commit as it was built: every message wrapper is the one git writes
WellFormed == \A i \in 1..Len(messageWraps) : messageWraps[i] = "quoted"

RECURSIVE RevertBranchTimes(_, _)
RevertBranchTimes(branchName, k) ==
  IF k = 0 THEN branchName ELSE RevertBranchOf(RevertBranchTimes(branchName, k - 1))

RECURSIVE RevertMessageTimes(_, _)
RevertMessageTimes(message, styles) ==
  IF styles = <<>> THEN message
  ELSE RevertMessageOf(RevertMessageTimes(message, SubSeq(styles, 1, Len(styles) - 1)),
                       styles[Len(styles)])

\* the branch and the message the commit under extraction was built from
SeedBranch ==
  CHOOSE b \in BranchSeeds \ {Null} : RevertBranchTimes(b, branchWraps) = subject.branchName

SeedMessage ==
  CHOOSE m \in MessageSeeds \ {Null} : RevertMessageTimes(m, messageWraps) = subject.message

MatchedIdentifiers(matches) == {matches[i].identifier : i \in 1..Len(matches)}

FromSource(es, source) == {es[i].identifier : i \in {j \in 1..Len(es) : es[j].source = source}}

\* C11: the added extractor returns nothing for a commit whose branch depth
\* or message depth is odd, whatever the branch and the message hold; so for
\* a branch under an odd number of revert prefixes and for a message under an
\* odd number of Revert "..." wrappers.
AddedEmptyAtOddDepth ==
  extracted # NoResult =>
    /\ (BranchParsed.depth % 2 = 1 \/ MessageParsed.depth % 2 = 1)
         => extracted.added = <<>>
    /\ branchWraps % 2 = 1 => extracted.added = <<>>
    /\ (WellFormed /\ Len(messageWraps) % 2 = 1) => extracted.added = <<>>

\* the merge of a revert branch whose message names an identifier behind a
\* magic word, and whose branch names one: nothing is added
AddedEmptyAtOddDepthWitness ==
  /\ extracted # NoResult
  /\ branchWraps = 1
  /\ messageWraps = <<>>
  /\ subject.message = MessageSquash
  /\ matchMagicWordIdentifiers(subject.message) # <<>>
  /\ matchAllIdentifiers(BranchParsed.inner) # <<>>
  /\ extracted.added = <<>>

\* C12: the reverted extractor returns nothing when both depths are 0; its
\* branch identifiers are those of the unwrapped branch when the branch depth
\* is odd and none otherwise, its message identifiers the magic-word
\* identifiers of the unwrapped message when the message depth is odd and
\* none otherwise. So an even number of wrappers, 0 or not, contributes nothing.
RevertedOnlyAtOddDepth ==
  extracted # NoResult =>
    /\ (BranchParsed.depth = 0 /\ MessageParsed.depth = 0) => extracted.reverted = <<>>
    /\ FromSource(extracted.reverted, "branch_name")
         = IF BranchParsed.depth % 2 = 1
           THEN MatchedIdentifiers(matchAllIdentifiers(BranchParsed.inner)) ELSE {}
    /\ FromSource(extracted.reverted, "commit_message")
         = IF MessageParsed.depth % 2 = 1
           THEN MatchedIdentifiers(matchMagicWordIdentifiers(MessageParsed.inner))
                  \ FromSource(extracted.reverted, "branch_name")
           ELSE {}
    /\ subject.branchName # Null =>
         FromSource(extracted.reverted, "branch_name")
           = IF branchWraps % 2 = 1
             THEN MatchedIdentifiers(matchAllIdentifiers(SeedBranch)) ELSE {}
    /\ (subject.message # Null /\ WellFormed) =>
         FromSource(extracted.reverted, "commit_message")
           = IF Len(messageWraps) % 2 = 1
             THEN MatchedIdentifiers(matchMagicWordIdentifiers(SeedMessage))
                    \ FromSource(extracted.reverted, "branch_name")
             ELSE {}

\* a branch with an identifier under two revert prefixes and a message under
\* one wrapper: only the identifier of the message is reverted
RevertedOnlyAtOddDepthWitness ==
  /\ extracted # NoResult
  /\ branchWraps = 2
  /\ messageWraps = <<"quoted">>
  /\ matchAllIdentifiers(BranchParsed.inner) # <<>>
  /\ FromSource(extracted.reverted, "branch_name") = {}
  /\ FromSource(extracted.reverted, "commit_message") # {}

\* C13: the pull request extractor returns nothing for a message that begins
\* with Revert " in any case, whatever #digits it holds, whatever the branch,
\* whatever the depth of the message: twice wrapped and unclosed included.
NoPullRequestOfRevertMessage ==
  extracted # NoResult =>
    /\ MatchAtIgnoreCase(OrEmpty(subject.message), 1, RevertMessageLiteral)
         => extracted.prNumbers = <<>>
    /\ messageWraps # <<>> => extracted.prNumbers = <<>>

\* a message with a pull request number under two wrappers, depth 2, on an
\* ordinary branch: no number
NoPullRequestOfRevertMessageWitness ==
  /\ extracted # NoResult
  /\ messageWraps = <<"quoted", "quoted">>
  /\ MessageParsed.depth = 2
  /\ branchWraps = 0
  /\ HashNumbersFrom(subject.message, 1) # <<>>
  /\ extracted.prNumbers = <<>>

\* C14: the pull request extractor returns nothing for a branch of odd
\* depth, merge or squash message or not; for a branch of even depth it
\* returns what the message gives without a branch: 5 for the merge message,
\* 7 for the squash message.
PullRequestsByBranchDepth ==
  extracted # NoResult =>
    /\ (BranchParsed.depth % 2 = 1 \/ branchWraps % 2 = 1) => extracted.prNumbers = <<>>
    /\ (BranchParsed.depth % 2 = 0 /\ branchWraps % 2 = 0) =>
         /\ extracted.prNumbers
              = extractPullRequestNumbersForCommit([subject EXCEPT !.branchName = Null])
         /\ subject.message = MessageMerge => extracted.prNumbers = <<5>>
         /\ subject.message = MessageSquash => extracted.prNumbers = <<7>>

\* the merge message on a branch under two revert prefixes gives its number
PullRequestsByBranchDepthWitness ==
  /\ extracted # NoResult
  /\ branchWraps = 2
  /\ BranchParsed.depth = 2
  /\ subject.message = MessageMerge
  /\ extracted.prNumbers = <<5>>

\* an upper-cased key of 1 to 7 word characters, a hyphen, 1 to 9 digits
\* without a leading zero
Canonical(id) ==
  \E h \in 2..(Len(id) - 1) :
    /\ id[h] = "-"
    /\ h - 1 <= 7
    /\ \A i \in 1..(h - 1) : IsWordChar(id[i]) /\ ~IsLower(id[i])
    /\ Len(id) - h <= 9
    /\ \A i \in (h + 1)..Len(id) : IsDigit(id[i])
    /\ (Len(id) - h = 1 \/ id[h + 1] # "0")

\* id is the upper-cased form of a piece of text
WrittenIn(id, text) ==
  \E s \in 1..(Len(text) - Len(id) + 1) : UpperText(SubSeq(text, s, s + Len(id) - 1)) = id

\* C15: every identifier the added and the reverted extractor return, and so
\* every identifier of a scan's lists and audit trail, is canonical; it is
\* the upper-cased form of a piece of the branch name or of the message, so
\* a match with a leading zero gives no identifier, not one without the zero.
CanonicalIdentifiers ==
  /\ extracted # NoResult =>
       \A id \in IdentifiersOf(extracted.added) \cup IdentifiersOf(extracted.reverted) :
         /\ Canonical(id)
         /\ \/ WrittenIn(id, OrEmpty(subject.branchName))
            \/ WrittenIn(id, OrEmpty(subject.message))
  /\ \A id \in MapKeys(lastAction) \cup MapKeys(debugSink.issues)
                 \cup MapKeys(debugSink.revertedIssues) : Canonical(id)
  /\ pc = "done" => \A id \in AddedOf(result) \cup RevertedOf(result) : Canonical(id)

\* a lower-case identifier of the branch is returned upper-cased, a match
\* with a leading zero in the message is not returned
CanonicalIdentifiersWitness ==
  /\ extracted # NoResult
  /\ subject.branchName = BranchPlain
  /\ subject.message = MessageLeadingZero
  /\ \E s \in 1..Len(subject.message) :
       /\ IssueIdentifierAt(subject.message, s).found
       /\ IssueIdentifierAt(subject.message, s).numberString[1] = "0"
  /\ IdentifiersOf(extracted.added) = {<<"B","A","C","-","3","9">>}

\* id is written on a line of text, behind a magic word that starts at a
\* word boundary and at least one character further
BehindMagicWord(id, text) ==
  \E n \in 1..Len(SplitLines(text)) :
    LET line == SplitLines(text)[n]
    IN  \E s \in 1..Len(line), k \in 1..Len(MagicWords) :
          /\ WordBoundary(line, s)
          /\ MatchAtIgnoreCase(line, s, MagicWords[k])
          /\ \E p \in (s + Len(MagicWords[k]) + 1)..(Len(line) - Len(id) + 1) :
               UpperText(SubSeq(line, p, p + Len(id) - 1)) = id

LIN11 == <<"L","I","N","-","1","1">>

LIN22 == <<"L","I","N","-","2","2">>

BAC39 == <<"B","A","C","-","3","9">>

NothingExtracted == [added |-> <<>>, reverted |-> <<>>, prNumbers |-> <<>>]

\* C17: no extractor throws. For a commit without a branch name the
\* extractors return what they return for an empty branch name, and the
\* branch depth is 0; likewise without a message, and then there is no pull
\* request number; without both nothing is extracted.
NullFieldsAreEmptyText ==
  extracted # NoResult =>
    /\ extracted.added # TypeError
    /\ extracted.reverted # TypeError
    /\ subject.branchName = Null =>
         /\ getRevertBranchDepth(subject.branchName) = 0
         /\ BranchParsed = [depth |-> 0, inner |-> <<>>]
         /\ extracted = ExtractAll([subject EXCEPT !.branchName = <<>>])
         /\ FromSource(extracted.added, "branch_name") = {}
         /\ FromSource(extracted.reverted, "branch_name") = {}
    /\ subject.message = Null =>
         /\ getRevertMessageDepth(subject.message) = 0
         /\ MessageParsed = [depth |-> 0, inner |-> <<>>]
         /\ extracted = ExtractAll([subject EXCEPT !.message = <<>>])
         /\ FromSource(extracted.added, "commit_message") = {}
         /\ FromSource(extracted.reverted, "commit_message") = {}
         /\ extracted.prNumbers = <<>>
    /\ (subject.branchName = Null /\ subject.message = Null) =>
         extracted = NothingExtracted

\* the extractors have run on a commit with neither branch name nor message
NullFieldsAreEmptyTextWitness ==
  /\ extracted = NothingExtracted
  /\ subject.branchName = Null
  /\ subject.message = Null

\* C18: withRetry invokes fn at most 3 times. When it has returned, it
\* returned the value of the last invocation, the only one that resolved;
\* when three invocations have rejected it has thrown the third error, after
\* two waits; it invokes nothing and waits for nothing once it is over.
AtMostThreeAttempts ==
  /\ invocations <= 3
  /\ Len(delays) <= 2
  /\ retryPc = "returned" =>
       /\ outcome = [kind |-> "returned", value |-> invocations]
       /\ Len(failures) = invocations - 1
       /\ Len(delays) = Len(failures)
  /\ Len(failures) = 3 =>
       /\ retryPc = "thrown"
       /\ invocations = 3
       /\ outcome = [kind |-> "thrown", error |-> failures[3]]
  /\ retryPc \in {"returned", "thrown"} => ~ENABLED RetryNext

\* three retryable errors in a row: the third is thrown
AtMostThreeAttemptsWitness ==
  /\ retryPc = "thrown"
  /\ Len(failures) = 3
  /\ \A i \in 1..3 : isRetryable(failures[i])
  /\ failures[3] # failures[2]
  /\ outcome.error = failures[3]

\* the failures withRetry must not retry: a LinearError of one of these
\* types, or with a 4xx status that is not 429
MustNotRetry(error) ==
  /\ error.class \in {"LinearError", "RatelimitedLinearError"}
  /\ \/ error.type \in {"AuthenticationError", "Forbidden", "FeatureNotAccessible",
                        "GraphqlError", "InvalidInput", "UserError", "UsageLimitExceeded"}
     \/ (error.status >= 400 /\ error.status <= 499 /\ error.status # 429)

\* C19: a failure that must not be retried is the last one: withRetry has
\* thrown that error, without waiting and without invoking fn again. Any
\* other failure of the first two attempts, a rate limit error or an error
\* that is no LinearError among them, is followed by a wait.
NonRetryableThrownAtOnce ==
  \A i \in 1..Len(failures) :
    IF MustNotRetry(failures[i])
    THEN /\ i = Len(failures)
         /\ retryPc = "thrown"
         /\ outcome = [kind |-> "thrown", error |-> failures[i]]
         /\ invocations = i
         /\ Len(delays) = i - 1
    ELSE i < 3 => Len(delays) >= i /\ (retryPc = "thrown" => Len(failures) > i)

\* a rate limit error was retried after its wait, then a 4xx error of the
\* second attempt was thrown at once
NonRetryableThrownAtOnceWitness ==
  /\ retryPc = "thrown"
  /\ Len(failures) = 2
  /\ failures[1].class = "RatelimitedLinearError"
  /\ failures[2].status = 400
  /\ failures[2].type = "none"
  /\ delays = <<2000>>
  /\ invocations = 2
  /\ outcome.error = failures[2]

IsPrefix(a, b) == Len(a) <= Len(b) /\ SubSeq(b, 1, Len(a)) = a

\* every source list of sink is a prefix of the list of the same identifier
\* in later
SourcesGrow(sink, later) ==
  \A id \in MapKeys(sink) : MapHas(later, id) /\ IsPrefix(MapGet(sink, id), MapGet(later, id))

\* the source entries of id that the first n commits give through the
\* extractor with these results, one per commit that observed it
RECURSIVE SourcesUpTo(_, _, _)
SourcesUpTo(table, id, n) ==
  IF n = 0 THEN <<>>
  ELSE LET es   == table[commits[n]]
           hits == {k \in 1..Len(es) : es[k].identifier = id}
       IN  SourcesUpTo(table, id, n - 1)
             \o [k \in 1..Cardinality(hits) |->
                   [sha    |-> commits[n].sha,
                    source |-> es[CHOOSE h \in hits : TRUE].source,
                    value  |-> IF es[CHOOSE h \in hits : TRUE].source = "branch_name"
                               THEN OrEmpty(commits[n].branchName)
                               ELSE OrEmpty(commits[n].message)]]

\* C20: the audit trail only grows during a scan: a commit processed leaves
\* the inspected shas, every source list and the pull request entries as
\* prefixes of the new ones. After k commits the inspected shas are those of
\* the first k commits in order, and the source lists hold one entry for each
\* observation of these commits, in order, won or lost.
AuditTrailAppendOnly ==
  /\ [](/\ debugSink.inspectedShas = [i \in 1..scanned |-> commits[i].sha]
        /\ \A id \in MapKeys(debugSink.issues) :
             MapGet(debugSink.issues, id) = SourcesUpTo(AddedIdentifiers, id, scanned)
        /\ \A id \in MapKeys(debugSink.revertedIssues) :
             MapGet(debugSink.revertedIssues, id)
               = SourcesUpTo(RevertedIdentifiers, id, scanned))
  /\ [][pc = "scanning" =>
          /\ IsPrefix(debugSink.inspectedShas, debugSink'.inspectedShas)
          /\ IsPrefix(debugSink.pullRequests, debugSink'.pullRequests)
          /\ SourcesGrow(debugSink.issues, debugSink'.issues)
          /\ SourcesGrow(debugSink.revertedIssues, debugSink'.revertedIssues)]_vars

\* three commits scanned: an identifier has two added entries and a reverted
\* one, and a pull request entry was there before the last commit
AuditTrailAppendOnlyWitness ==
  /\ pc = "scanning"
  /\ scanned = 3
  /\ Len(debugSink.pullRequests) >= 2
  /\ \E id \in MapKeys(debugSink.issues) :
       /\ Len(MapGet(debugSink.issues, id)) = 2
       /\ MapHas(debugSink.revertedIssues, id)

\* C21: a branch of even depth 2 or more, under a message of even depth, is
\* an ordinary change: the added extractor returns what it returns for the
\* commit on the unwrapped branch, which is the branch the revert branches
\* were made from, and the reverted extractor returns nothing.
ReAddIsOrdinary ==
  (/\ extracted # NoResult
   /\ BranchParsed.depth >= 2
   /\ BranchParsed.depth % 2 = 0
   /\ MessageParsed.depth % 2 = 0) =>
    /\ extracted.added
         = extractLinearIssueIdentifiersForCommit(
             [subject EXCEPT !.branchName = BranchParsed.inner])
    /\ extracted.added
         = extractLinearIssueIdentifiersForCommit([subject EXCEPT !.branchName = SeedBranch])
    /\ extracted.reverted = <<>>

\* the revert of the revert of u/bac-39, merged: BAC-39 is added from the
\* branch, nothing is reverted
ReAddIsOrdinaryWitness ==
  /\ extracted # NoResult
  /\ subject.branchName = RevertBranchTimes(BranchPlain, 2)
  /\ BranchParsed = [depth |-> 2, inner |-> BranchPlain]
  /\ subject.message = MessageMerge
  /\ extracted.added = <<[identifier |-> BAC39, source |-> "branch_name"]>>
  /\ extracted.reverted = <<>>

\* the message the pull request extractor reads, and what its rules give
SubjectMessage == OrEmpty(subject.message)

SquashOfSubject == SquashMatch(Head(SplitLines(SubjectMessage)))

MergeOfSubject == MergeMatch(SubjectMessage)

HashesOfSubject == HashNumbersFrom(SubjectMessage, 1)

\* the extractors ran on a commit the pull request extractor does not skip
PullRequestsRead ==
  /\ extracted # NoResult
  /\ ~MatchAtIgnoreCase(SubjectMessage, 1, RevertMessageLiteral)
  /\ BranchParsed.depth % 2 = 0

Members(list) == {list[i] : i \in 1..Len(list)}

\* C22: the scan of every #digits runs only when neither the squash form nor
\* the merge form gave a number: when one did, no other #digits of the
\* message is returned; when none did, every #digits is, once, in order.
FallbackOnlyWithoutForm ==
  PullRequestsRead =>
    /\ SquashOfSubject \o MergeOfSubject # <<>> =>
         Members(extracted.prNumbers) \subseteq Members(SquashOfSubject \o MergeOfSubject)
    /\ SquashOfSubject \o MergeOfSubject = <<>> =>
         extracted.prNumbers = Unique(HashesOfSubject)
    /\ subject.message = MessageSquashAndHash => extracted.prNumbers = <<7>>
    /\ subject.message = MessageMergeAndHash => extracted.prNumbers = <<5>>
    /\ subject.message = MessageOtherLine => extracted.prNumbers = <<8>>

\* "Fix #3 (#7)": the squash form gives 7, the 3 is left out
FallbackOnlyWithoutFormWitness ==
  /\ PullRequestsRead
  /\ subject.message = MessageSquashAndHash
  /\ HashesOfSubject = <<3, 7>>
  /\ SquashOfSubject = <<7>>
  /\ extracted.prNumbers = <<7>>

\* C23 as stated: the rules are tried in order and the first that gives a
\* number ends the extraction, so a message in the squash form returns the
\* squash number alone.
SquashFormEndsExtraction ==
  (PullRequestsRead /\ SquashOfSubject # <<>>) => extracted.prNumbers = SquashOfSubject

\* C23 amended: the squash number comes first and no #digits of the fallback
\* follows it, but the merge form is still read: the squash number is alone
\* exactly when the merge form gives nothing or the same number. Without a
\* squash number the merge number is alone.
SquashNumberFirst ==
  PullRequestsRead =>
    /\ SquashOfSubject # <<>> =>
         /\ Head(extracted.prNumbers) = Head(SquashOfSubject)
         /\ Len(extracted.prNumbers) <= 2
         /\ extracted.prNumbers = SquashOfSubject
              <=> (MergeOfSubject = <<>> \/ MergeOfSubject = SquashOfSubject)
    /\ (SquashOfSubject = <<>> /\ MergeOfSubject # <<>>) =>
         extracted.prNumbers = MergeOfSubject

\* "Merge pull request #5 from o/x #9 (#7)": 7 first, then 5, never 9
SquashNumberFirstWitness ==
  /\ PullRequestsRead
  /\ subject.message = MessageMergeAndSquash
  /\ extracted.prNumbers = <<7, 5>>

\* C24: the squash form and the merge form are read independently: a message
\* in both forms returns the squash number and then the merge number, or the
\* one number when they are equal.
SquashAndMergeBothKept ==
  PullRequestsRead =>
    /\ (SquashOfSubject # <<>> /\ MergeOfSubject # <<>>) =>
         extracted.prNumbers
           = IF SquashOfSubject = MergeOfSubject THEN SquashOfSubject
             ELSE SquashOfSubject \o MergeOfSubject
    /\ subject.message = MessageMergeAndSquash => extracted.prNumbers = <<7, 5>>
    /\ subject.message = MessageMergeIsSquash => extracted.prNumbers = <<7>>

\* "Merge pull request #7 from o/x (#7)": both forms give 7, returned once
SquashAndMergeBothKeptWitness ==
  /\ PullRequestsRead
  /\ subject.message = MessageMergeIsSquash
  /\ SquashOfSubject = <<7>>
  /\ MergeOfSubject = <<7>>
  /\ extracted.prNumbers = <<7>>

\* the message is n closed wrappers around one wrapper without closing quote
UnclosedInside ==
  /\ messageWraps # <<>>
  /\ messageWraps[1] = "unclosed"
  /\ \A i \in 2..Len(messageWraps) : messageWraps[i] = "quoted"

\* C25: n closed Revert "..." wrappers around a layer that begins with
\* Revert " and has no closing quote: the parser returns depth n and, as
\* inner, that layer as it stands; the depth read through
\* getRevertMessageDepth is the same.
MalformedEndsUnwrapping ==
  UnclosedInside =>
    /\ MessageParsed = [depth |-> Len(messageWraps) - 1,
                        inner |-> RevertMessageOf(SeedMessage, "unclosed")]
    /\ getRevertMessageDepth(subject.message) = Len(messageWraps) - 1
    /\ MatchAt(MessageParsed.inner, 1, RevertMessageLiteral)

\* 'Revert "Revert "Fixes ENG-1 (#7)"': depth 1, inner 'Revert "Fixes ENG-1
\* (#7)', and the extractors ran on it as on a revert
MalformedEndsUnwrappingWitness ==
  /\ extracted # NoResult
  /\ messageWraps = <<"unclosed", "quoted">>
  /\ SeedMessage = MessageSquash
  /\ MessageParsed.depth = 1
  /\ MessageParsed.inner = RevertMessageLiteral \o MessageSquash
  /\ extracted.added = <<>>

\* the working texts of the loop of parseRevertBranch from name on, one per
\* test of the loop condition: n is the length of the prefix the test finds
RECURSIVE BranchTexts(_)
BranchTextsAfter(name, n) ==
  IF n > 0 THEN <<name>> \o BranchTexts(SubSeq(name, n + 1, Len(name))) ELSE <<name>>

BranchTexts(name) == BranchTextsAfter(name, RevertPrefixLen(name, 1))

\* the working texts of the loop of parseRevertMessage from text on
RECURSIVE MessageTexts(_)
MessageTextsAfter(text, quotes) ==
  IF MatchAt(text, 1, RevertMessageLiteral) /\ quotes # {}
  THEN <<text>>
         \o MessageTexts(SubSeq(text, Len(RevertMessageLiteral) + 1, Max(quotes) - 1))
  ELSE <<text>>

MessageTexts(text) ==
  MessageTextsAfter(text,
    {q \in (Len(RevertMessageLiteral) + 2)..Len(text) : text[q] = "\""})

\* the text, and what it holds behind each of its slashes
BehindSlashes(text) ==
  {text} \cup {SubSeq(text, j + 1, Len(text)) : j \in {i \in 1..Len(text) : text[i] = "/"}}

\* texts are the working texts of a loop that returned parsed for input:
\* every iteration made the text shorter, the depth is the number of
\* iterations and at most the length of the input, the last text is returned
LoopOf(texts, parsed, input) ==
  /\ \A i \in 1..(Len(texts) - 1) : Len(texts[i + 1]) < Len(texts[i])
  /\ parsed.depth = Len(texts) - 1
  /\ parsed.inner = texts[Len(texts)]
  /\ parsed.depth <= Len(input)
  /\ parsed.depth + Len(parsed.inner) <= Len(input)

\* C26: both unwrapping loops end, on every branch name and every message:
\* each iteration shortens the working text, the depth returned is the
\* number of iterations and never more than the length of the input. The
\* branch loop starts from the input or, behind an org/ prefix, from what
\* follows one of its slashes.
UnwrappingIsBounded ==
  /\ \E start \in BehindSlashes(OrEmpty(subject.branchName)) :
       LoopOf(BranchTexts(start), BranchParsed, OrEmpty(subject.branchName))
  /\ LoopOf(MessageTexts(SubjectMessage), MessageParsed, SubjectMessage)

\* two revert prefixes and two wrappers: two iterations of each loop
UnwrappingIsBoundedWitness ==
  /\ extracted # NoResult
  /\ branchWraps = 2
  /\ messageWraps = <<"quoted", "quoted">>
  /\ BranchParsed.depth = 2
  /\ MessageParsed.depth = 2
  /\ Len(MessageTexts(SubjectMessage)) = 3
  /\ Len(BranchTexts(subject.branchName)) = 3

\* what a commit observes, in the order scanCommits reads it: the reverted
\* identifiers, then the added ones
ObservedInOrder(c) == RevertedIdentifiers[c] \o AddedIdentifiers[c]

\* where the first commit that observed id stands, then where id stands in it
ArrivalRank(list, id) ==
  <<Min(Observers(list, id)),
    Min({k \in 1..Len(ObservedInOrder(FirstObserver(list, id))) :
           ObservedInOrder(FirstObserver(list, id))[k].identifier = id})>>

Earlier(a, b) == a[1] < b[1] \/ (a[1] = b[1] /\ a[2] < b[2])

InArrivalOrder(list, refs) ==
  \A i, j \in 1..Len(refs) :
    i < j => Earlier(ArrivalRank(list, refs[i].identifier),
                     ArrivalRank(list, refs[j].identifier))

\* where the commit with this sha stands in list
PositionOf(list, sha) == CHOOSE i \in 1..Len(list) : list[i].sha = sha

\* C27: the two lists are in arrival order: an identifier stands before
\* another of the same list when the commit that first observed it came
\* first, or, within one commit, when it was extracted first; the commit
\* that won, whose sha the reference carries, has no part in the order.
PartitionInArrivalOrder ==
  pc = "done" =>
    /\ InArrivalOrder(commits, result.issueReferences)
    /\ InArrivalOrder(commits, result.revertedIssueReferences)

\* two added identifiers, the first in the list won by a later commit than
\* the second
PartitionInArrivalOrderWitness ==
  /\ pc = "done"
  /\ Len(result.issueReferences) = 2
  /\ PositionOf(commits, result.issueReferences[1].commitSha)
       > PositionOf(commits, result.issueReferences[2].commitSha)
  /\ Min(Observers(commits, result.issueReferences[1].identifier))
       < Min(Observers(commits, result.issueReferences[2].identifier))

\* the pull request numbers the first n commits of list yielded
YieldedUpTo(list, n) ==
  UNION {Members(PullRequestNumbers[list[i]]) : i \in 1..n}

\* C29: the set of pull request numbers only grows during a scan: in every
\* iteration the set before is a prefix of the set after, so after k commits
\* it holds every number the first k commits yielded, reverts among them or
\* not, and it is returned as it stands after the last one.
PullRequestsOnlyGrow ==
  /\ [](pc \in {"scanning", "done"} =>
          Members(prNumbersSet) = YieldedUpTo(commits, scanned))
  /\ [][pc = "scanning" =>
          /\ IsPrefix(prNumbersSet, prNumbersSet')
          /\ pc' = "done" => result'.prNumbers = prNumbersSet]_vars

\* pull request 7 added ENG-1, a later commit reverted ENG-1: ENG-1 is in
\* the reverted list and 7 is still returned
PullRequestsOnlyGrowWitness ==
  /\ pc = "done"
  /\ commits = <<AddEng1, RevertEng1>>
  /\ RevertedOf(result) = ObservedAdded(AddEng1)
  /\ AddedOf(result) = {}
  /\ result.prNumbers = <<7>>
  /\ PullRequestNumbers[AddEng1] = <<7>>

\* the locals of scanCommits after the reverted loop and the added loop of
\* one iteration, on the commit under extraction
AfterIssueLoops(reverted, added) ==
  RecordAllAdded(RecordAllReverted(NewAccumulator(Null), subject, reverted), subject, added)

AllSetTo(acc, action) == \A i \in 1..Len(acc.lastAction) : acc.lastAction[i].value = action

\* C28: no commit is on both paths: the added and the reverted extractor are
\* never both non-empty, the added one needs both depths even and the
\* reverted one a depth that is odd; so one iteration of the scan sets every
\* identifier of the commit to the same action, and none twice.
PathsExclusive ==
  extracted # NoResult =>
    /\ extracted.added = <<>> \/ extracted.reverted = <<>>
    /\ extracted.added # <<>> => (BranchParsed.depth % 2 = 0 /\ MessageParsed.depth % 2 = 0)
    /\ extracted.reverted # <<>> => (BranchParsed.depth % 2 = 1 \/ MessageParsed.depth % 2 = 1)
    /\ IdentifiersOf(extracted.added) \cap IdentifiersOf(extracted.reverted) = {}
    /\ \/ AllSetTo(AfterIssueLoops(extracted.reverted, extracted.added), "added")
       \/ AllSetTo(AfterIssueLoops(extracted.reverted, extracted.added), "reverted")

\* a revert branch with an identifier and an unwrapped message with one
\* behind a magic word: the branch identifier is reverted, nothing is added
PathsExclusiveWitness ==
  /\ extracted # NoResult
  /\ branchWraps = 1
  /\ messageWraps = <<>>
  /\ subject.message = MessageMixed
  /\ SeedBranch = BranchPlain
  /\ IdentifiersOf(extracted.reverted) = {BAC39}
  /\ extracted.added = <<>>
  /\ matchMagicWordIdentifiers(subject.message) # <<>>

\* C30: no revert branch, a message that begins with Revert " and has no
\* closing quote: the message depth is 0, the identifiers behind the magic
\* words of the message, the same as without the Revert ", are added,
\* nothing is reverted, and the pull request extractor returns nothing all
\* the same.
UnclosedRevertIsAdded ==
  (/\ extracted # NoResult
   /\ BranchParsed.depth = 0
   /\ messageWraps = <<"unclosed">>) =>
    /\ MessageParsed.depth = 0
    /\ getRevertMessageDepth(subject.message) = 0
    /\ MatchedIdentifiers(matchMagicWordIdentifiers(subject.message))
         \subseteq IdentifiersOf(extracted.added)
    /\ MatchedIdentifiers(matchMagicWordIdentifiers(SeedMessage))
         \subseteq IdentifiersOf(extracted.added)
    /\ extracted.reverted = <<>>
    /\ extracted.prNumbers = <<>>

\* 'Revert "Fixes ENG-1 (#7)' without a branch: ENG-1 is added from the
\* message, the 7 is not returned
UnclosedRevertIsAddedWitness ==
  /\ extracted # NoResult
  /\ subject.branchName = Null
  /\ subject.message = RevertMessageLiteral \o MessageSquash
  /\ messageWraps = <<"unclosed">>
  /\ IdentifiersOf(extracted.added) = MatchedIdentifiers(matchMagicWordIdentifiers(MessageSquash))
  /\ Len(extracted.added) = 1
  /\ extracted.added[1].source = "commit_message"
  /\ HashesOfSubject = <<7>>
  /\ extracted.prNumbers = <<>>










====
